---- MODULE Spec2Model ----
(***************************************************************************)
(* Model of acme-search's interactive session (src/cmd/Search/main.go,     *)
(* first revision in the file, lines 1-679): the event loop that turns     *)
(* acme insert/delete events into search rounds, the Source units of a     *)
(* round, the unit that closes the merge channel, and the render loop     *)
(* with its heap, debounce timer and writeResults.                         *)
(*                                                                         *)
(* Granularity.  s.lock is a sync.Mutex; a critical section is one step    *)
(* unless it blocks inside (insert/delete call Search synchronously, and   *)
(* Search waits DebounceDuration while the lock is still held, so that     *)
(* section is two steps).  A channel send and its receive are one step     *)
(* (the channel is unbuffered).  Every select is a nondeterministic        *)
(* choice among its ready cases.                                           *)
(*                                                                         *)
(* Look events and Plumb are followed in ClickSpec, where writeResults is   *)
(* taken statement by statement because Plumb reads s.results and s.ranges *)
(* without the lock.                                                       *)
(*                                                                         *)
(* Not modelled: the parent context of main (signals), the execute events  *)
(* of the event loop, the text of the window tag.                          *)
(***************************************************************************)
EXTENDS Integers, Sequences, FiniteSets, TLC

\* ------------------------------------------------------------------ bounds
MaxRounds == 2          \* accepted edits, i.e. rounds created
MaxItems  == 2          \* lines the Sources yield in a session
MaxLiveItems == 1       \* the same, in the sessions checked for liveness
MaxHeap == 6            \* results in the heap of a round followed on its own
MaxBulkExtra == 2       \* lines received beyond MaxResults - 1
MaxOrder == 4           \* results whose arrival orders are compared

\* --------------------------------------------------------- program constants
MaxResults == 100
PerFileCap == 5

Rounds == 1..MaxRounds

VARIABLES
    query,        \* s.query, a sequence of characters
    lock,         \* s.lock: "free", "event" (held by insert/delete) or
                  \* "render" (held by writeResults)
    cur,          \* number of tokens minted; s.cancel cancels token cur (0: nil)
    cancelled,    \* cancelled[r]: ctx of round r is done
    evq,          \* the event waiting in win.EventChan(), or NoEvent
    evPc,         \* event loop: "idle", "delay" inside Search's first select,
                  \* or "exited" (EventLoop returned an error or panicked)
    started,      \* started[r]: Search of round r got past the delay and the tag read
    srcKind,      \* per flag of the round: "cmd", "idx" or "unknown"
    srcPc,        \* per flag of the round: "send" or "done"
    sent,         \* lines the Sources have read so far, all rounds together
    wg,           \* sync.WaitGroup counter of the round
    chClosed,     \* close(ch) happened
    rlPc,         \* render loop: "none", "select", "write" (render has called
                  \* writeResults, which waits for s.lock), "publish"
                  \* (writeResults holds s.lock, past its ctx check; in
                  \* ClickSpec then "make", "result", "range", "window"), "done"
                  \* (returned), "failed" (returned after logging a render error)
    results,      \* the render loop's ResultHeap (array order)
    hasRendered,  \* render closure's hasRendered
    lastLen,      \* render closure's lastLen
    timerReady,   \* now >= shouldRender
    skipped,      \* a render attempt of the timer case was skipped since
                  \* shouldRender was last set (observes the loop, the
                  \* program has no such variable)
    topN,         \* snapshot handed to writeResults
    final,        \* render was called from the closed-channel case
    roundQuery,   \* the query local of Search (line 254) that the round's
                  \* render loop scores against
    sresults,     \* s.results
    sranges,      \* s.ranges
    shown,        \* results last written to the window body
    pubs,         \* pubs[r]: a writeResults of round r has returned nil
    dirty,        \* dirty[r]: a result was pushed since r's last such return
                  \* (pubs and dirty observe the run, the program has no such fields)
    logs,         \* logs[r]: the kinds of error report (log.Printf) made by the
                  \* Sources and the render loop of round r
    wi,           \* writeResults: the i of lines 453-467
    plumb,        \* the event loop's position inside Plumb, with its locals
    opened,       \* what the last look event led to
    fz            \* a call into package fuzzy followed on its own: its
                  \* arguments and what it returned

vars == << query, lock, cur, cancelled, evq, evPc, started, srcKind,
           srcPc, sent, wg, chClosed, rlPc, results, hasRendered, lastLen,
           timerReady, skipped, topN, final, roundQuery, sresults, sranges, shown,
           pubs, dirty,
           logs, wi, plumb, opened, fz >>

\* ------------------------------------------------------------ query text
\* Strings that the code indexes are sequences of one-character strings.
Prompt == << ">", " " >>

\* Faulty variant: the files Source is on by default.
DefaultFlagsWithFiles == << "s", "w", "g", "f" >>

\* Line 71: symbols, windows, grep.
DefaultFlags == << "s", "w", "g" >>

IsSpace(c) == c \in {" ", "\n", "\t", "\r"}

TrimPrefix(s, p) ==
    IF Len(s) >= Len(p) /\ SubSeq(s, 1, Len(p)) = p
    THEN SubSeq(s, Len(p) + 1, Len(s))
    ELSE s

RECURSIVE TrimLeft(_)
TrimLeft(s) ==
    IF s # << >> /\ IsSpace(Head(s)) THEN TrimLeft(Tail(s)) ELSE s

RECURSIVE TrimRight(_)
TrimRight(s) ==
    IF s # << >> /\ IsSpace(s[Len(s)])
    THEN TrimRight(SubSeq(s, 1, Len(s) - 1))
    ELSE s

TrimSpace(s) == TrimRight(TrimLeft(s))

\* strings.SplitN(s, "+", 2)
SplitPlus(s) ==
    LET hits == { i \in 1..Len(s) : s[i] = "+" }
    IN  IF hits = {} THEN << s >>
        ELSE LET i == CHOOSE m \in hits : \A n \in hits : m <= n
             IN  << SubSeq(s, 1, i - 1), SubSeq(s, i + 1, Len(s)) >>

QueryParts(q) == SplitPlus(TrimSpace(TrimPrefix(q, Prompt)))

Flags(q) == IF Len(QueryParts(q)) = 2 THEN QueryParts(q)[2] ELSE DefaultFlags

Query(q) == QueryParts(q)[1]

\* The Source a flag selects (the switch of Search).
KindOfFlag(f) ==
    IF f \in {"s", "g", "f"} THEN "cmd"
    ELSE IF f = "w" THEN "idx"
    ELSE "unknown"

\* --------------------------------------------------------------- results
\* A Result is [text, addr, score, round]; addr is << >> for a nil *Addr and
\* << a >> otherwise; fromLine 0 stands for the empty string.  round is the
\* round whose Source produced the line (not a field of the program).
Addr(f, l) ==
    << [file |-> f, fromLine |-> l, fromColumn |-> 1, toLine |-> 0, toColumn |-> 0] >>

\* Lines a commandSource may yield, with the score fuzzy.Match gives them
\* under the round's query: a match in a.go and a line that does not match.
CmdLines ==
    { [text |-> << "h", "i", "t" >>, addr |-> Addr("a.go", 1), score |-> 2],
      [text |-> << "m", "i", "s", "s" >>, addr |-> << >>, score |-> 0] }

\* Window names indexSource may yield: never with an address.
IdxLines == { [text |-> << "w", "i", "n" >>, addr |-> << >>, score |-> 1] }

LinesOf(kind) == IF kind = "cmd" THEN CmdLines ELSE IdxLines

\* ------------------------------------------------------------ ResultHeap
\* container/heap on the array h; index i here is index i-1 of the Go slice.

\* Faulty variant: the lowest score on top.
LessAscending(h, i, j) == h[i].score < h[j].score

Less(h, i, j) == h[i].score > h[j].score

Swap(h, i, j) == [h EXCEPT ![i] = h[j], ![j] = h[i]]

RECURSIVE Up(_, _)
Up(h, j) ==
    LET i == j \div 2
    IN  IF j = 1 \/ ~Less(h, j, i) THEN h ELSE Up(Swap(h, i, j), i)

RECURSIVE Down(_, _, _)
Down(h, i, n) ==
    LET j1 == 2 * i
        j  == IF j1 + 1 <= n /\ Less(h, j1 + 1, j1) THEN j1 + 1 ELSE j1
    IN  IF j1 > n THEN h
        ELSE IF ~Less(h, j, i) THEN h
        ELSE Down(Swap(h, i, j), j, n)

HeapPush(h, x) == Up(Append(h, x), Len(h) + 1)

\* heap.Pop: the popped element and the remaining heap.
HeapPop(h) ==
    LET n == Len(h)
        d == Down(Swap(h, 1, n), 1, n - 1)
    IN  [top |-> d[n], rest |-> SubSeq(d, 1, n - 1)]

\* The heap after pushing xs in order: the first half of xs, then the
\* second on the heap that produced (computed first, which the test on its
\* length sees to; long sequences can be evaluated that way).
RECURSIVE PushAll(_, _)
PushAll(h, xs) ==
    IF xs = << >> THEN h
    ELSE IF Len(xs) = 1 THEN HeapPush(h, xs[1])
    ELSE LET m == Len(xs) \div 2
             half == PushAll(h, SubSeq(xs, 1, m))
         IN  IF Len(half) = Len(h) + m
             THEN PushAll(half, SubSeq(xs, m + 1, Len(xs)))
             ELSE half

\* -------------------------------------------------------- render closure
\* seenInFile[file]: the files of the results popped so far, one entry each.
CountIn(files, f) == Cardinality({ k \in 1..Len(files) : files[k] = f })

\* Faulty variant: every popped result keeps its slot.
AdvancesAlways(i, count, isDup) == TRUE

\* Faulty variant: the per-file count is not consulted.
AdvancesNoCap(i, count, isDup) == i = 0 \/ ~isDup

\* Whether the popped result keeps its slot (i++): lines 327-339.
Advances(i, count, isDup) == i = 0 \/ (count < PerFileCap /\ ~isDup)

\* One turn of the pop loop of render (lines 324-340), or nothing when its
\* condition fails.  topN is topN[:i]: a popped result that does not advance
\* i is overwritten by the next pop or cut by topN[:i].
PopStep(st) ==
    IF ~(Len(st.topN) < MaxResults /\ Len(st.heap) > 0)
    THEN st
    ELSE LET p == HeapPop(st.heap)
             r == p.top
         IN  IF r.addr = << >>
             THEN [st EXCEPT !.heap = p.rest, !.topN = Append(@, r)]
             ELSE LET a     == r.addr[1]
                      isDup == a \in st.seenAtAddr
                      count == CountIn(st.seenInFile, a.file)
                  IN  [heap |-> p.rest,
                       topN |-> IF Advances(Len(st.topN), count, isDup)
                                THEN Append(st.topN, r) ELSE st.topN,
                       seenAtAddr |-> st.seenAtAddr \cup {a},
                       seenInFile |-> Append(st.seenInFile, a.file)]

\* n turns of the loop: the first half of them, then the others unless the
\* heap is empty by then.
RECURSIVE PopTimes(_, _)
PopTimes(st, n) ==
    IF n = 0 THEN st
    ELSE IF n = 1 THEN PopStep(st)
    ELSE LET half == PopTimes(st, n \div 2)
         IN  IF half.heap = << >> THEN half ELSE PopTimes(half, n - n \div 2)

\* The pop loop of render (lines 323-341): it takes at most Len(h) turns.
PopLoop(h, out, seenAtAddr, seenInFile) ==
    LET st == PopTimes([heap |-> h, topN |-> out, seenAtAddr |-> seenAtAddr,
                        seenInFile |-> seenInFile], Len(h))
    IN  [heap |-> st.heap, topN |-> st.topN]

\* Lines 320-345: the snapshot topN and the heap after the push-back loop.
RenderPass(h) ==
    LET p == PopLoop(h, << >>, {}, << >>)
    IN  [heap |-> PushAll(p.heap, p.topN), topN |-> p.topN]

\* Faulty variant: hasRendered is not consulted.
SkipRenderByLen(rendered, len, last) == len = last

\* Faulty variant: no render is ever skipped.
SkipRenderNever(rendered, len, last) == FALSE

\* Faulty variant: lastLen is not consulted once a render has happened.
SkipRenderAfterFirst(rendered, len, last) == rendered

\* Line 315: the render is skipped.
SkipRender(rendered, len, last) == rendered /\ len = last

\* Faulty variant: every scored line is pushed.
AnyScore(score) == TRUE

\* Line 383: only positive scores are pushed.
Positive(score) == score > 0

\* ------------------------------------------------- writeResults grouping
\* The comparison of lines 437-444.
Cmp3(x, y) == IF x < y THEN 0 - 1 ELSE IF x > y THEN 1 ELSE 0

CmpResult(a, b) ==
    IF a.addr = << >> \/ b.addr = << >>
       \/ a.addr[1].fromLine = 0 \/ b.addr[1].fromLine = 0
    THEN Cmp3(b.score, a.score)
    ELSE Cmp3(a.addr[1].fromLine, b.addr[1].fromLine)

\* slices.BinarySearchFunc: the insertion index, counted from 0.
RECURSIVE BinarySearch(_, _, _, _)
BinarySearch(xs, t, i, j) ==
    IF i >= j THEN i
    ELSE LET h == (i + j) \div 2
         IN  IF CmpResult(xs[h + 1], t) < 0
             THEN BinarySearch(xs, t, h + 1, j)
             ELSE BinarySearch(xs, t, i, h)

InsertAt(xs, i, t) == SubSeq(xs, 1, i) \o << t >> \o SubSeq(xs, i + 1, Len(xs))

\* Lines 428-451: groups in order of first appearance.
RECURSIVE BuildGroups(_, _)
BuildGroups(rs, groups) ==
    IF rs = << >> THEN groups
    ELSE LET r == Head(rs)
         IN  IF r.addr = << >>
             THEN BuildGroups(Tail(rs), Append(groups, [name |-> "", results |-> << r >>]))
             ELSE LET file == r.addr[1].file
                      hits == { g \in 1..Len(groups) : groups[g].name = file }
                  IN  IF hits = {}
                      THEN BuildGroups(Tail(rs),
                               Append(groups, [name |-> file, results |-> << r >>]))
                      ELSE LET g  == CHOOSE m \in hits : \A n \in hits : m <= n
                               xs == groups[g].results
                               i  == BinarySearch(xs, r, 0, Len(xs))
                           IN  BuildGroups(Tail(rs),
                                   [groups EXCEPT ![g].results = InsertAt(xs, i, r)])

RECURSIVE Flatten(_)
Flatten(groups) ==
    IF groups = << >> THEN << >>
    ELSE Head(groups).results \o Flatten(Tail(groups))

\* s.results after lines 453-469: the results in displayed order.
Displayed(rs) == Flatten(BuildGroups(rs, << >>))

\* Lines 421-424: the query line gets its newline back.
FixNewline(q) == IF q # << >> /\ q[Len(q)] = "\n" THEN q ELSE Append(q, "\n")

\* ------------------------------------------------- writeResults layout
\* File names as text.
FileChars(f) ==
    IF f = "a.go" THEN << "a", ".", "g", "o" >>
    ELSE IF f = "b.go" THEN << "b", ".", "g", "o" >>
    ELSE << >>

\* addr.FromLine as the Source read it: decimal digits.
RECURSIVE FromLineText(_)
FromLineText(n) ==
    LET digits == << "0", "1", "2", "3", "4", "5", "6", "7", "8", "9" >>
    IN  IF n < 10 THEN << digits[n + 1] >>
        ELSE FromLineText(n \div 10) \o << digits[(n % 10) + 1] >>

\* The verb %-5s: left-justified in a field of five.
PadRight5(t) == IF Len(t) >= 5 THEN t ELSE t \o [k \in 1..(5 - Len(t)) |-> " "]

\* Lines 461-465: what one result adds to sb.
LineOf(result) ==
    (IF result.addr # << >> /\ result.addr[1].fromLine # 0
     THEN PadRight5(FromLineText(result.addr[1].fromLine)) \o << " " >>
     ELSE << >>)
    \o result.text \o << "\n" >>

\* Lines 460 and 466: Range{start, sb.Len() - 1}, start being sb.Len() - 1
\* before the line is written; before and after are sb.Len() then and now.
RangeAt(before, after) == [Start |-> before - 1, End |-> after - 1]

\* Lines 458-468 for one result; st is [sb, results, ranges].
WriteLine(st, result) ==
    LET sb == st.sb \o LineOf(result)
    IN  [sb |-> sb,
         results |-> Append(st.results, result),
         ranges |-> Append(st.ranges, RangeAt(Len(st.sb), Len(sb)))]

RECURSIVE WriteLines(_, _)
WriteLines(st, rs) ==
    IF rs = << >> THEN st ELSE WriteLines(WriteLine(st, Head(rs)), Tail(rs))

\* Lines 454-469.
RECURSIVE WriteGroups(_, _)
WriteGroups(st, groups) ==
    IF groups = << >> THEN st
    ELSE LET g == Head(groups)
             named == IF g.name # ""
                      THEN [st EXCEPT !.sb = @ \o FileChars(g.name) \o << "\n" >>]
                      ELSE st
         IN  WriteGroups(WriteLines(named, g.results), Tail(groups))

\* Lines 417-469: the text written to the window, s.results and s.ranges.
WriteIndex(q, rs) ==
    WriteGroups([sb |-> FixNewline(q), results |-> << >>, ranges |-> << >>],
                BuildGroups(rs, << >>))

\* ---------------------------------------------------------- Range, Plumb
\* Faulty variant: the end of a range belongs to it.
CompareInclusive(r, i) ==
    IF i < r.Start THEN 1 ELSE IF i > r.End THEN 0 - 1 ELSE 0

\* Range.Compare (lines 38-46): 1 before the range, -1 after it, 0 within.
Compare(r, i) ==
    IF i < r.Start THEN 1 ELSE IF i >= r.End THEN 0 - 1 ELSE 0

\* slices.BinarySearchFunc(s.ranges, q0, ...) of line 546: the smallest
\* index (from 0) whose range is not before q0, found by halving.
RECURSIVE SearchRanges(_, _, _, _)
SearchRanges(ranges, q0, i, j) ==
    IF i >= j THEN i
    ELSE LET h == (i + j) \div 2
         IN  IF Compare(ranges[h + 1], q0) < 0
             THEN SearchRanges(ranges, q0, h + 1, j)
             ELSE SearchRanges(ranges, q0, i, h)

\* Line 542: nothing to resolve.
BeforeFirst(ranges, q0) == Len(ranges) = 0 \/ q0 < ranges[1].Start

\* Lines 546-549: the index found (from 0), or -1.
FoundAt(ranges, q0) ==
    LET i == SearchRanges(ranges, q0, 0, Len(ranges))
    IN  IF i < Len(ranges) /\ Compare(ranges[i + 1], q0) = 0 THEN i ELSE 0 - 1

\* A nil *Result in s.results.
NilResult == [text |-> << >>, addr |-> << >>, score |-> 0, round |-> 0]

\* Lines 542-554 on an index nobody is writing: the result to open, or
\* NilResult when Plumb returns false.
Resolve(ranges, rs, q0) ==
    IF BeforeFirst(ranges, q0) THEN NilResult
    ELSE LET i == FoundAt(ranges, q0)
         IN  IF i < 0 THEN NilResult
             ELSE IF rs[i + 1].addr = << >> THEN NilResult
             ELSE rs[i + 1]

\* ----------------------------------------------------------- package fuzzy
\* Scores are float64 in the program; here they are counted in thousandths,
\* which all the constants are multiples of.  MinScore and MaxScore stand for
\* -Inf and +Inf: a sum with -Inf is -Inf.
ScoreGapLeading == -5
ScoreGapTrailing == -5
ScoreGapInner == -10
ScoreMatchConsecutive == 1000
ScoreMatchSlash == 900
ScoreMatchWord == 800
ScoreMatchCapital == 700
ScoreMatchDot == 600
MinScore == -1000000
MaxScore == 1000000

Plus(a, b) == IF a = MinScore \/ b = MinScore THEN MinScore ELSE a + b

Max(a, b) == IF a >= b THEN a ELSE b

\* The characters of the texts of the model.
LowerLetters == { "a", "b", "f" }
UpperLetters == { "A", "B", "F" }

ToLowerRune(c) ==
    CASE c = "A" -> "a" [] c = "B" -> "b" [] c = "F" -> "f" [] OTHER -> c

ToLower(s) == [k \in 1..Len(s) |-> ToLowerRune(s[k])]

\* bonusAt of fuzzy.go; the tables bonusIndex and bonusStates of the other
\* file give the same values on these characters.
bonusAt(curr, prev) ==
    IF curr \in LowerLetters \cup UpperLetters
    THEN CASE prev = "/" -> ScoreMatchSlash
           [] prev \in { "-", "_", " " } -> ScoreMatchWord
           [] prev = "." -> ScoreMatchDot
           [] OTHER -> IF curr \in UpperLetters /\ prev \in LowerLetters
                       THEN ScoreMatchCapital
                       ELSE 0
    ELSE 0

precomputeBonus(haystack) ==
    [j \in 1..Len(haystack) |->
        bonusAt(haystack[j], IF j = 1 THEN "/" ELSE haystack[j - 1])]

newMatcher(needle, haystack) ==
    [needle |-> ToLower(needle), haystack |-> ToLower(haystack),
     matchBonus |-> precomputeBonus(haystack)]

\* The loop of matchRow from haystack index j on (index j here is j-1 in Go,
\* row i here is i-1 in Go); last holds last_D and last_M, acc the part of
\* curr_D and curr_M written so far.
RECURSIVE RowScan(_, _, _, _, _, _)
RowScan(m, i, last, j, prevScore, acc) ==
    IF j > Len(m.haystack)
    THEN acc
    ELSE LET gapScore == IF i = Len(m.needle) THEN ScoreGapTrailing ELSE ScoreGapInner
             score == IF i = 1
                      THEN Plus((j - 1) * ScoreGapLeading, m.matchBonus[j])
                      ELSE IF j > 1
                           THEN Max(Plus(last.M[j - 1], m.matchBonus[j]),
                                    Plus(last.D[j - 1], ScoreMatchConsecutive))
                           ELSE MinScore
             hit == m.needle[i] = m.haystack[j]
             d == IF hit THEN score ELSE MinScore
             p == IF hit THEN Max(score, Plus(prevScore, gapScore))
                         ELSE Plus(prevScore, gapScore)
         IN  RowScan(m, i, last, j + 1, p,
                     [D |-> Append(acc.D, d), M |-> Append(acc.M, p)])

matchRow(m, i, last) == RowScan(m, i, last, 1, MinScore, [D |-> << >>, M |-> << >>])

\* The loop over the needle: after row i the rows are swapped.
RECURSIVE Rows(_, _, _)
Rows(m, i, last) ==
    IF i > Len(m.needle) THEN last ELSE Rows(m, i + 1, matchRow(m, i, last))

matcherMatch(m) ==
    LET n == Len(m.haystack)
        zero == [j \in 1..n |-> 0]
    IN  Rows(m, 1, [D |-> zero, M |-> zero]).M[n]

\* Faulty variant: the empty needle matches everything, with score 0.
MatchEmptyScoresZero(needle, haystack) ==
    IF needle = << >> THEN 0
    ELSE IF Len(needle) > Len(haystack) THEN MinScore
    ELSE matcherMatch(newMatcher(needle, haystack))

\* Match of fuzzy/fuzzy.go.
Match(needle, haystack) ==
    IF needle = << >> THEN MinScore
    ELSE IF Len(needle) > Len(haystack) THEN MinScore
    ELSE matcherMatch(newMatcher(needle, haystack))

\* Match of the other file of package fuzzy (src/unnamed/part_000).
MatchEqualLen(needle, haystack) ==
    IF needle = << >> THEN MinScore
    ELSE IF Len(needle) > Len(haystack) THEN MinScore
    ELSE IF Len(needle) = Len(haystack) THEN MaxScore
    ELSE matcherMatch(newMatcher(needle, haystack))

\* MatchPositions: the rows D[i], M[i] for the needle characters up to i
\* (lines 254-262 of fuzzy.go); for the first row last_D and last_M are nil
\* and are not read.
RECURSIVE RowsUpTo(_, _)
RowsUpTo(m, i) ==
    IF i = 0 THEN << >>
    ELSE LET prev == RowsUpTo(m, i - 1)
         IN  Append(prev, matchRow(m, i, IF i = 1 THEN [D |-> << >>, M |-> << >>]
                                                   ELSE prev[i - 1]))

\* The backtracking loops (lines 265-290 of fuzzy.go), with the indices of
\* the Go code: i and j count from 0, rows[i + 1].D[j + 1] is D[i][j].  A hit
\* at j runs j-- and then stores j in positions[i].
RECURSIVE Backtrack(_, _, _, _, _)
Backtrack(rows, i, j, matchRequired, positions) ==
    IF i < 0 THEN positions
    ELSE IF j < 0 THEN Backtrack(rows, i - 1, j, matchRequired, positions)
    ELSE IF /\ rows[i + 1].D[j + 1] # MinScore
            /\ (matchRequired \/ rows[i + 1].D[j + 1] = rows[i + 1].M[j + 1])
         THEN Backtrack(rows, i - 1, j - 1,
                        /\ i # 0 /\ j # 0
                        /\ rows[i + 1].M[j + 1]
                               = Plus(rows[i].D[j], ScoreMatchConsecutive),
                        [positions EXCEPT ![i + 1] = j - 1])
         ELSE Backtrack(rows, i, j - 1, matchRequired, positions)

\* A call that ends in a run-time panic; one that returns has how = "ok".
Panicked == [how |-> "panic", score |-> 0, positions |-> << >>]

\* matcher.MatchPositions of fuzzy/fuzzy.go (lines 237-293).  D and M get
\* len(needle) rows, and the loop of lines 249-252 assigns one row per
\* haystack character: an index out of range when the haystack is longer.
\* With both empty, line 292 indexes M[-1].
matcherMatchPositions(m) ==
    IF Len(m.haystack) > Len(m.needle) THEN Panicked
    ELSE IF m.needle = << >> THEN Panicked
    ELSE LET rows == RowsUpTo(m, Len(m.needle))
         IN  [how |-> "ok",
              score |-> rows[Len(m.needle)].M[Len(m.haystack)],
              positions |-> Backtrack(rows, Len(m.needle) - 1,
                                      Len(m.haystack) - 1, FALSE,
                                      [k \in 1..Len(m.needle) |-> 0])]

\* MatchPositions of fuzzy/fuzzy.go (lines 312-323).
MatchPositions(needle, haystack) ==
    IF Len(needle) > Len(haystack)
    THEN [how |-> "ok", score |-> MinScore, positions |-> << >>]
    ELSE matcherMatchPositions(newMatcher(needle, haystack))

\* MatchPositions of the other file (src/unnamed/part_000, lines 258-334):
\* the same allocation after the two tests on the lengths, which return nil
\* positions.
MatchPositionsEqualLen(needle, haystack) ==
    IF Len(needle) > Len(haystack)
    THEN [how |-> "ok", score |-> MinScore, positions |-> << >>]
    ELSE IF Len(needle) = Len(haystack)
    THEN [how |-> "ok", score |-> MaxScore, positions |-> << >>]
    ELSE Panicked

\* The two files define the same package: a build holds one of them.
Builds == { "fuzzy.go", "part_000" }

MatchBy(build, needle, haystack) ==
    IF build = "fuzzy.go" THEN Match(needle, haystack)
    ELSE MatchEqualLen(needle, haystack)

\* ------------------------------------------------------------ initial state
NoEvent == [kind |-> "none", q0 |-> 0, q1 |-> 0, text |-> << >>]

\* The event loop is not inside Plumb.
NoPlumb == [pc |-> "none", q0 |-> 0, i |-> 0, seen |-> << >>]

\* No look event has been handled yet.
NoLook == [how |-> "none", addr |-> << >>]

\* main: WritePrompt has run, no edit yet.
Init ==
    /\ query = Append(Prompt, "\n")
    /\ lock = "free"
    /\ cur = 0
    /\ cancelled = [r \in Rounds |-> FALSE]
    /\ evq = NoEvent
    /\ evPc = "idle"
    /\ started = [r \in Rounds |-> FALSE]
    /\ srcKind = [r \in Rounds |-> << >>]
    /\ srcPc = [r \in Rounds |-> << >>]
    /\ sent = 0
    /\ wg = [r \in Rounds |-> 0]
    /\ chClosed = [r \in Rounds |-> FALSE]
    /\ rlPc = [r \in Rounds |-> "none"]
    /\ results = [r \in Rounds |-> << >>]
    /\ hasRendered = [r \in Rounds |-> FALSE]
    /\ lastLen = [r \in Rounds |-> 0]
    /\ timerReady = [r \in Rounds |-> FALSE]
    /\ skipped = [r \in Rounds |-> FALSE]
    /\ topN = [r \in Rounds |-> << >>]
    /\ final = [r \in Rounds |-> FALSE]
    /\ roundQuery = [r \in Rounds |-> << >>]
    /\ sresults = << >>
    /\ sranges = << >>
    /\ shown = << >>
    /\ pubs = [r \in Rounds |-> FALSE]
    /\ dirty = [r \in Rounds |-> FALSE]
    /\ logs = [r \in Rounds |-> {}]
    /\ wi = 0
    /\ plumb = NoPlumb
    /\ opened = NoLook
    /\ fz = [pc |-> "none"]

eventVars  == << query, lock, cur, cancelled, evq, evPc >>
sourceVars == << started, srcKind, srcPc, sent, wg, chClosed >>
renderVars == << rlPc, results, hasRendered, lastLen, timerReady, skipped, topN,
                final, roundQuery >>
windowVars == << sresults, sranges, shown >>
observerVars == << pubs, dirty >>
clickVars  == << wi, plumb, opened, fz >>

\* ---------------------------------------------------------------- events
\* Edits the user can make: a character typed at the start of the query
\* text, the character there deleted, and the same two beyond the query line.
EditInputs ==
    { [kind |-> "I", q0 |-> Len(Prompt), q1 |-> Len(Prompt), text |-> << "x" >>],
      [kind |-> "I", q0 |-> Len(query) + 1, q1 |-> Len(query) + 1, text |-> << "x" >>],
      [kind |-> "D", q0 |-> Len(Prompt), q1 |-> Len(Prompt) + 1, text |-> << >>],
      [kind |-> "D", q0 |-> Len(query) + 1, q1 |-> Len(query) + 2, text |-> << >>] }

\* The same at the first offset after the query line, where the results
\* begin: offset len(s.query).
EdgeInputs ==
    { [kind |-> "I", q0 |-> Len(query), q1 |-> Len(query), text |-> << "x" >>],
      [kind |-> "D", q0 |-> Len(query), q1 |-> Len(query) + 1, text |-> << >>] }

\* acme delivers an event while the event loop is inside insert/delete: it
\* waits in win.EventChan().
UserEdit ==
    /\ evPc = "delay"
    /\ evq = NoEvent
    /\ cur < MaxRounds
    /\ \E e \in EditInputs : evq' = e
    /\ UNCHANGED << query, lock, cur, cancelled, evPc >>
    /\ UNCHANGED << sourceVars, renderVars, windowVars, observerVars, clickVars, logs >>

\* case e := <-s.win.EventChan() (line 569): the waiting event, or one that
\* arrives while the loop is in its select.
ArrivalsOf(inputs, kind) ==
    IF evq # NoEvent
    THEN IF evq.kind = kind THEN {evq} ELSE {}
    ELSE IF cur < MaxRounds THEN { e \in inputs : e.kind = kind } ELSE {}

Arrivals(kind) == ArrivalsOf(EditInputs, kind)

\* Faulty variant: the previous token is left alone.
CancelNobody == cancelled

\* Faulty variant: the token before the previous one is cancelled.
CancelOlder == [r \in Rounds |-> cancelled[r] \/ (cur > 0 /\ r < cur)]

\* Lines 506-510: cancel the previous token, mint the next one.
CancelPrevious == [r \in Rounds |-> cancelled[r] \/ (cur > 0 /\ r = cur)]

\* Search.insert (lines 495-513) for the event e, up to the first select of
\* Search.
InsertEvent(e) ==
    /\ evPc = "idle"
    /\ lock = "free"
    /\ IF e.q0 > Len(query)
       THEN UNCHANGED << query, lock, cur, cancelled, evPc >>
       ELSE /\ query' = SubSeq(query, 1, e.q0) \o e.text
                        \o SubSeq(query, e.q0 + 1, Len(query))
            /\ cancelled' = CancelPrevious
            /\ cur' = cur + 1
            /\ lock' = "event"
            /\ evPc' = "delay"
    /\ evq' = NoEvent
    /\ UNCHANGED << sourceVars, renderVars, windowVars, observerVars, clickVars, logs >>

Insert == \E e \in Arrivals("I") : InsertEvent(e)

\* An insert at the first offset after the query line.
InsertEdge == \E e \in ArrivalsOf(EdgeInputs, "I") : InsertEvent(e)

\* Search.delete (lines 515-538) for the event e, up to the first select of
\* Search.
DeleteEvent(e) ==
    /\ evPc = "idle"
    /\ lock = "free"
    /\ IF e.q0 > Len(query)
       THEN UNCHANGED << query, lock, cur, cancelled, evPc >>
       ELSE LET q1 == IF e.q1 > Len(query) THEN Len(query) ELSE e.q1
            IN  /\ query' = SubSeq(query, 1, e.q0) \o SubSeq(query, q1 + 1, Len(query))
                /\ cancelled' = CancelPrevious
                /\ cur' = cur + 1
                /\ lock' = "event"
                /\ evPc' = "delay"
    /\ evq' = NoEvent
    /\ UNCHANGED << sourceVars, renderVars, windowVars, observerVars, clickVars, logs >>

Delete == \E e \in Arrivals("D") : DeleteEvent(e)

\* A delete at the first offset after the query line.
DeleteEdge == \E e \in ArrivalsOf(EdgeInputs, "D") : DeleteEvent(e)

\* ---------------------------------------------------------------- Search
\* Search is called by insert/delete with s.lock held.  Its first select
\* (lines 233-237) takes the timer case: the token was minted by the caller,
\* and it is cancelled only by the event loop, which is the caller, or
\* through the parent context by the signal that ends the program (line
\* 644).  The model follows a session up to that signal.

\* Lines 242-246: the tag cannot be read, Search returns, the lock is released.
SearchTagError ==
    /\ evPc = "delay"
    /\ evPc' = "idle"
    /\ lock' = "free"
    /\ UNCHANGED << query, cur, cancelled, evq >>
    /\ UNCHANGED << sourceVars, renderVars, windowVars, observerVars, clickVars, logs >>

\* wg.Add(1) for every flag; for an unknown one, wg.Done() at once and a log
\* entry (lines 258-297).
KnownUnits(kinds) == { k \in 1..Len(kinds) : kinds[k] # "unknown" }

\* How a Source comes to return without being cancelled in its send:
\*   "eof"    the stream ended and the process exited with status 0 (or
\*            every window name was sent): lines 137-142, 155, 170
\*   "exit"   the stream ended and cmd.Wait reports a nonzero exit status
\*   "wait"   the stream ended and cmd.Wait reports another error
\*   "scan"   scanner.Err() is not nil (lines 138-141)
\*   "start"  StdoutPipe, Start or acme.Windows failed (lines 96-104, 159-162)
\* sentAny: the unit has sent a line, so it did start.
Endings(kind, sentAny) ==
    (IF kind = "cmd" THEN {"eof", "exit", "wait", "scan"} ELSE {"eof"})
    \cup (IF sentAny THEN {} ELSE {"start"})

\* The error commandSource / indexSource returns; done: ctx is done when
\* cmd.Wait has returned its error (the select of lines 144-153).
SourceErr(kind, how, done) ==
    IF how = "eof" THEN "nil"
    ELSE IF how = "start" THEN (IF kind = "idx" THEN "windows" ELSE "start command")
    ELSE IF how = "scan" THEN "scanning"
    ELSE IF done THEN "canceled"
    ELSE IF how = "exit" THEN "nil"
    ELSE "wait"

\* ctx.Err() of a cancelled token, as errors.Is(err, context.Canceled) sees it.
IsCanceled(err) == err = "canceled"

\* Lines 265, 273, 281, 289: the unit logs the error.
Reported(err) == err # "nil" /\ ~IsCanceled(err)

\* Faulty variant: wg.Done() only on the return without error.
DoneOnNilOnly(err) == err = "nil"

\* defer wg.Done() (lines 263, 271, 279, 287): on every return.
DoneRuns(err) == TRUE

\* The log entries of round r after a unit returned err.
LogSource(r, err) ==
    [logs EXCEPT ![r] = IF Reported(err) THEN @ \cup {"source"} ELSE @]

\* Lines 254-388: the channel, the Sources, the closing unit and the render
\* loop of round cur are created; Search returns and the lock is released.
\* A Source unit is followed from its first select on: the units in first
\* have a line to send, the others return before that, each in the way ends
\* gives.
Spawn(first, ends) ==
    /\ evPc = "delay"
    /\ LET flags == Flags(query)
           kinds == [k \in 1..Len(flags) |-> KindOfFlag(flags[k])]
           errs  == [k \in DOMAIN ends |-> SourceErr(kinds[k], ends[k], FALSE)]
       IN  /\ first \subseteq KnownUnits(kinds)
           /\ DOMAIN ends = KnownUnits(kinds) \ first
           /\ \A k \in DOMAIN ends : ends[k] \in Endings(kinds[k], FALSE)
           /\ srcKind' = [srcKind EXCEPT ![cur] = kinds]
           /\ sent + Cardinality(first) <= MaxItems
           /\ srcPc' = [srcPc EXCEPT ![cur] =
                          [k \in 1..Len(flags) |->
                              IF k \in first THEN "send" ELSE "done"]]
           /\ sent' = sent + Cardinality(first)
           /\ wg' = [wg EXCEPT ![cur] =
                        Cardinality(first)
                        + Cardinality({ k \in DOMAIN ends : ~DoneRuns(errs[k]) })]
           /\ logs' = [logs EXCEPT ![cur] =
                          @ \cup (IF \E k \in DOMAIN ends : Reported(errs[k])
                                  THEN {"source"} ELSE {})
                            \cup (IF \E k \in 1..Len(kinds) : kinds[k] = "unknown"
                                  THEN {"unknown flag"} ELSE {})]
    /\ started' = [started EXCEPT ![cur] = TRUE]
    /\ rlPc' = [rlPc EXCEPT ![cur] = "select"]
    /\ evPc' = "idle"
    /\ lock' = "free"
    /\ roundQuery' = [roundQuery EXCEPT ![cur] = Query(query)]
    /\ UNCHANGED << query, cur, cancelled, evq, chClosed >>
    /\ UNCHANGED << results, hasRendered, lastLen, timerReady, skipped, topN, final >>
    /\ UNCHANGED << windowVars, observerVars, clickVars >>

AllEndings == {"eof", "exit", "wait", "scan", "start"}

\* The units of the round being spawned that have no line to send.
Others(first) ==
    KnownUnits([k \in 1..Len(Flags(query)) |-> KindOfFlag(Flags(query)[k])]) \ first

\* The sessions in which no Source fails: every stream ends with "eof".
SearchSpawn ==
    /\ evPc = "delay"
    /\ \E first \in SUBSET Others({}) : Spawn(first, [k \in Others(first) |-> "eof"])

\* The same, a Source being free to fail.
SearchSpawnFailing ==
    /\ evPc = "delay"
    /\ \E first \in SUBSET Others({}) :
          \E ends \in [Others(first) -> AllEndings] : Spawn(first, ends)

\* --------------------------------------------------------------- Sources
\* commandSource / indexSource, unit k of round r.
\*   "send": in the select of lines 132-136 / 164-168 with a line to send
\*   "done": returned (end of the stream, a scan or wait error, or
\*           cancellation); the deferred wg.Done() has run
\* Reading the next line belongs to the step that leaves the unit in its
\* next select or returned.

\* Faulty variant: a plain send, without the ctx.Done() case.
SendIgnoresCancel(r) == FALSE

\* The send select has a case <-ctx.Done() beside the send (lines 133, 165).
SendSeesCancel(r) == cancelled[r]

SourceCancel(r, k) ==
    /\ k \in DOMAIN srcPc[r]
    /\ srcPc[r][k] = "send"
    /\ SendSeesCancel(r)
    /\ srcPc' = [srcPc EXCEPT ![r][k] = "done"]
    /\ wg' = [wg EXCEPT ![r] = IF DoneRuns("canceled") THEN @ - 1 ELSE @]
    /\ logs' = LogSource(r, "canceled")
    /\ UNCHANGED << started, srcKind, sent, chClosed >>
    /\ UNCHANGED << eventVars, renderVars, windowVars, observerVars, clickVars >>

\* Faulty variant: the closing unit does not wait.
WaitNone(r) == TRUE

\* Faulty variant: a wg.Done() is missing, wg.Wait() never returns.
WaitForever(r) == FALSE

\* Lines 299-302: wg.Wait() returns.
WaitDone(r) == wg[r] = 0

CloseChannel(r) ==
    /\ started[r]
    /\ ~chClosed[r]
    /\ WaitDone(r)
    /\ chClosed' = [chClosed EXCEPT ![r] = TRUE]
    /\ UNCHANGED << started, srcKind, srcPc, sent, wg >>
    /\ UNCHANGED << eventVars, renderVars, windowVars, observerVars, clickVars, logs >>

\* ----------------------------------------------------------- render loop
\* Faulty variant: one channel shared by the rounds, read by the latest loop.
ChanOfCurrent(r) == cur

\* The channel the Sources of round r send on: the ch of their own Search call.
ChanOf(r) == r

\* The goroutine returns: its locals are gone.
LoopReturns(r, how) ==
    /\ rlPc' = [rlPc EXCEPT ![r] = how]
    /\ results' = [results EXCEPT ![r] = << >>]
    /\ hasRendered' = [hasRendered EXCEPT ![r] = FALSE]
    /\ lastLen' = [lastLen EXCEPT ![r] = 0]
    /\ timerReady' = [timerReady EXCEPT ![r] = FALSE]
    /\ skipped' = [skipped EXCEPT ![r] = FALSE]
    /\ topN' = [topN EXCEPT ![r] = << >>]
    /\ final' = [final EXCEPT ![r] = FALSE]
    /\ roundQuery' = [roundQuery EXCEPT ![r] = << >>]

\* The debounce period since shouldRender was set has elapsed.
Tick(r) ==
    /\ rlPc[r] = "select"
    /\ ~timerReady[r]
    /\ timerReady' = [timerReady EXCEPT ![r] = TRUE]
    /\ UNCHANGED << rlPc, results, hasRendered, lastLen, skipped, topN, final,
                    roundQuery >>
    /\ UNCHANGED << eventVars, sourceVars, windowVars, observerVars, clickVars, logs >>

\* case <-ctx.Done() (line 359).
LoopCancel(r) ==
    /\ rlPc[r] = "select"
    /\ cancelled[r]
    /\ LoopReturns(r, "done")
    /\ UNCHANGED << eventVars, sourceVars, windowVars, observerVars, clickVars, logs >>

\* render() up to the call of writeResults (lines 312-345); fromClose tells
\* which case of the select called it.
Render(r, fromClose) ==
    IF SkipRender(hasRendered[r], Len(results[r]), lastLen[r])
    THEN IF fromClose
         THEN LoopReturns(r, "done")
         ELSE /\ skipped' = [skipped EXCEPT ![r] = TRUE]
              /\ UNCHANGED << rlPc, results, hasRendered, lastLen, timerReady,
                              topN, final, roundQuery >>
    ELSE LET p == RenderPass(results[r])
         IN  /\ hasRendered' = [hasRendered EXCEPT ![r] = TRUE]
             /\ results' = [results EXCEPT ![r] = p.heap]
             /\ topN' = [topN EXCEPT ![r] = p.topN]
             /\ final' = [final EXCEPT ![r] = fromClose]
             /\ rlPc' = [rlPc EXCEPT ![r] = "write"]
             /\ UNCHANGED << lastLen, timerReady, skipped, roundQuery >>

\* Faulty variant: the timer case is ready at once.
TimerAlways(r) == TRUE

\* time.After(time.Until(shouldRender)) has fired (line 361).
TimerFired(r) == timerReady[r]

\* case <-time.After(time.Until(shouldRender)) (lines 361-366).
LoopTimer(r) ==
    /\ rlPc[r] = "select"
    /\ TimerFired(r)
    /\ Render(r, FALSE)
    /\ UNCHANGED << eventVars, sourceVars, windowVars, observerVars, clickVars, logs >>

\* case result, ok := <-ch with ok (lines 367, 376-385), together with the
\* send of unit k of round r, which then reads on: next says whether it
\* finds another line ("more") or how it returns.
ReceiveThen(r, k, next) ==
    /\ k \in DOMAIN srcPc[r]
    /\ srcPc[r][k] = "send"
    /\ rlPc[ChanOf(r)] = "select"
    /\ ~chClosed[ChanOf(r)]
    /\ \E line \in LinesOf(srcKind[r][k]) :
          LET result == [text |-> line.text, addr |-> line.addr,
                         score |-> line.score, round |-> r]
          IN  /\ results' = [results EXCEPT ![ChanOf(r)] =
                                IF Positive(result.score) THEN HeapPush(@, result) ELSE @]
              /\ dirty' = [dirty EXCEPT ![ChanOf(r)] = @ \/ Positive(result.score)]
    /\ IF next = "more"
       THEN /\ sent < MaxItems
            /\ sent' = sent + 1
            /\ UNCHANGED << srcPc, wg, logs >>
       ELSE LET err == SourceErr(srcKind[r][k], next, cancelled[r])
            IN  /\ next \in Endings(srcKind[r][k], TRUE)
                /\ srcPc' = [srcPc EXCEPT ![r][k] = "done"]
                /\ wg' = [wg EXCEPT ![r] = IF DoneRuns(err) THEN @ - 1 ELSE @]
                /\ logs' = LogSource(r, err)
                /\ UNCHANGED sent
    /\ UNCHANGED << rlPc, hasRendered, lastLen, timerReady, skipped, topN, final,
                    roundQuery >>
    /\ UNCHANGED << started, srcKind, chClosed >>
    /\ UNCHANGED << eventVars, windowVars, pubs, clickVars >>

\* The sessions in which no Source fails.
LoopReceive(r, k) == \E next \in {"more", "eof"} : ReceiveThen(r, k, next)

\* The same, a Source being free to fail.
LoopReceiveFailing(r, k) ==
    \E next \in {"more"} \cup AllEndings : ReceiveThen(r, k, next)

\* case result, ok := <-ch with !ok (lines 368-374).
LoopClosed(r) ==
    /\ rlPc[r] = "select"
    /\ chClosed[r]
    /\ Render(r, TRUE)
    /\ UNCHANGED << eventVars, sourceVars, windowVars, observerVars, clickVars, logs >>

\* ---------------------------------------------------------- writeResults
\* What the window does with the calls of writeResults:
\*   "ok"         every call succeeds
\*   "errBefore"  addr=dot or ReadAddr fails (lines 408-415)
\*   "errWrite"   Addr or Write fails (lines 470-477)
\*   "errAfter"   a call after the Write fails (lines 479-491)
WindowOutcomes == { "ok", "errBefore", "errWrite", "errAfter" }

\* Faulty variant: writeResults without the ctx check.
WriteNeverRefused(r) == FALSE

\* Lines 400-405: the round was cancelled, writeResults returns ctx.Err().
WriteRefused(r) == cancelled[r]

\* writeResults gets s.lock and checks ctx (lines 397-405).  When the round
\* is cancelled it returns the error at once, render wraps it and the loop
\* logs it and returns (lines 346-349, 363-365, 370-373).
WriteLock(r) ==
    /\ rlPc[r] = "write"
    /\ lock = "free"
    /\ IF WriteRefused(r)
       THEN /\ LoopReturns(r, "failed")
            /\ logs' = [logs EXCEPT ![r] = @ \cup {"render: canceled"}]
            /\ UNCHANGED lock
       ELSE /\ rlPc' = [rlPc EXCEPT ![r] = "publish"]
            /\ lock' = "render"
            /\ UNCHANGED << results, hasRendered, lastLen, timerReady, skipped, topN,
                            final, roundQuery >>
            /\ UNCHANGED logs
    /\ UNCHANGED << query, cur, cancelled, evq, evPc >>
    /\ UNCHANGED << sourceVars, windowVars, observerVars, clickVars >>

\* writeResults from the window write on (lines 470-493), the rest of render
\* (lines 346-354) and of the select case that called it (lines 362-373).
WriteEnd(r, outcome) ==
    /\ IF outcome \in {"ok", "errAfter"}
       THEN shown' = Displayed(topN[r])
       ELSE UNCHANGED shown
    /\ IF outcome # "ok"
       THEN /\ LoopReturns(r, "failed")
            /\ logs' = [logs EXCEPT ![r] = @ \cup {"render"}]
            /\ UNCHANGED observerVars
       ELSE /\ UNCHANGED logs
            /\ pubs' = [pubs EXCEPT ![r] = TRUE]
            /\ dirty' = [dirty EXCEPT ![r] = FALSE]
            /\ IF final[r]
               THEN LoopReturns(r, "done")
               ELSE /\ lastLen' = [lastLen EXCEPT ![r] = Len(results[r])]
                    /\ timerReady' = [timerReady EXCEPT ![r] = FALSE]
                    /\ skipped' = [skipped EXCEPT ![r] = FALSE]
                    /\ topN' = [topN EXCEPT ![r] = << >>]
                    /\ rlPc' = [rlPc EXCEPT ![r] = "select"]
                    /\ UNCHANGED << results, hasRendered, final, roundQuery >>

\* The rest of writeResults (lines 407-493) in one step: nothing but Plumb
\* reads s.results and s.ranges without the lock.
WritePublish(r) ==
    /\ rlPc[r] = "publish"
    /\ lock' = "free"
    /\ \E outcome \in WindowOutcomes :
          /\ IF outcome # "errBefore"
             THEN /\ sresults' = WriteIndex(query, topN[r]).results
                  /\ sranges' = WriteIndex(query, topN[r]).ranges
                  /\ query' = FixNewline(query)
             ELSE UNCHANGED << sresults, sranges, query >>
          /\ WriteEnd(r, outcome)
    /\ UNCHANGED << cur, cancelled, evq, evPc >>
    /\ UNCHANGED << sourceVars, clickVars >>

\* ------------------------------------------------------------------ Next
Next ==
    \/ UserEdit
    \/ Insert
    \/ Delete
    \/ SearchTagError
    \/ SearchSpawn
    \/ \E r \in Rounds : \E k \in 1..Len(srcPc[r]) : SourceCancel(r, k)
    \/ \E r \in Rounds : CloseChannel(r)
    \/ \E r \in Rounds : Tick(r)
    \/ \E r \in Rounds : LoopCancel(r)
    \/ \E r \in Rounds : LoopTimer(r)
    \/ \E r \in Rounds : \E k \in 1..Len(srcPc[r]) : LoopReceive(r, k)
    \/ \E r \in Rounds : LoopClosed(r)
    \/ \E r \in Rounds : WriteLock(r)
    \/ \E r \in Rounds : WritePublish(r)

Spec == Init /\ [][Next]_vars

\* The sessions in which the user also edits at the first offset after the
\* query line.
EdgeNext == Next \/ InsertEdge \/ DeleteEdge

EdgeSpec == Init /\ [][EdgeNext]_vars

\* Scheduling the code can rely on.  Time passes, so the initial delay ends;
\* a goroutine that can take a step does not wait for ever: a blocked select
\* whose case stays ready takes it, and a goroutine that stays able to get
\* s.lock gets it.  Weak fairness only; nothing is assumed about the user or
\* about which ready case a select prefers.
Units == 1..Len(DefaultFlags)

Fairness ==
    /\ WF_vars(SearchSpawn \/ SearchTagError)
    /\ \A r \in Rounds :
          /\ WF_vars(CloseChannel(r))
          /\ WF_vars(LoopCancel(r))
          /\ WF_vars(LoopClosed(r))
          /\ WF_vars(WriteLock(r))
          /\ WF_vars(WritePublish(r))
          /\ \A k \in Units :
                /\ WF_vars(SourceCancel(r, k))
                /\ WF_vars(LoopReceive(r, k))

\* Liveness is checked on the sessions in which the Sources yield at most
\* MaxLiveItems lines: the two steps that take a line are held to it.  A
\* unit can always find its stream at its end, so no step is cut off.
LiveNext ==
    \/ UserEdit
    \/ Insert
    \/ Delete
    \/ SearchTagError
    \/ SearchSpawn /\ sent' <= MaxLiveItems
    \/ \E r \in Rounds, k \in Units : SourceCancel(r, k)
    \/ \E r \in Rounds : CloseChannel(r)
    \/ \E r \in Rounds : Tick(r)
    \/ \E r \in Rounds : LoopCancel(r)
    \/ \E r \in Rounds : LoopTimer(r)
    \/ \E r \in Rounds, k \in Units : LoopReceive(r, k) /\ sent' <= MaxLiveItems
    \/ \E r \in Rounds : LoopClosed(r)
    \/ \E r \in Rounds : WriteLock(r)
    \/ \E r \in Rounds : WritePublish(r)

FairSpec == Init /\ [][LiveNext]_vars /\ Fairness

\* The first round of a session, its Sources being free to fail, up to the
\* edit that would supersede it: nothing is cancelled.
FirstEdit == cur = 0 /\ (Insert \/ Delete)

FailFairness ==
    /\ WF_vars(SearchSpawnFailing \/ SearchTagError)
    /\ \A r \in Rounds :
          /\ WF_vars(CloseChannel(r))
          /\ WF_vars(LoopClosed(r))
          /\ WF_vars(WriteLock(r))
          /\ WF_vars(WritePublish(r))
          /\ \A k \in Units : WF_vars(LoopReceiveFailing(r, k))

FailNext ==
    \/ FirstEdit
    \/ SearchTagError
    \/ SearchSpawnFailing
    \/ \E r \in Rounds : CloseChannel(r)
    \/ \E r \in Rounds : Tick(r)
    \/ \E r \in Rounds : LoopTimer(r)
    \/ \E r \in Rounds, k \in Units : LoopReceiveFailing(r, k)
    \/ \E r \in Rounds : LoopClosed(r)
    \/ \E r \in Rounds : WriteLock(r)
    \/ \E r \in Rounds : WritePublish(r)

FailSpec == Init /\ [][FailNext]_vars /\ FailFairness

\* The first round of a session whose first edit pastes a query text with or
\* without a + suffix; no Source fails, nothing is cancelled.
FlagTexts ==
    { << "x" >>, << "x", "+" >>, << "x", "+", "g" >>, << "x", "+", "w" >>,
      << "x", "+", "f" >>, << "x", "+", "s", "f" >>, << "x", "+", "z" >>,
      << "x", "+", "z", "w" >>, << "x", "+", "g", "Z", "g" >>,
      << "x", " ", "+", "w", " " >> }

InsertFlags ==
    /\ cur = 0
    /\ \E t \in FlagTexts :
          InsertEvent([kind |-> "I", q0 |-> Len(Prompt), q1 |-> Len(Prompt),
                       text |-> t])

FlagNext ==
    \/ InsertFlags
    \/ SearchSpawn
    \/ \E r \in Rounds : CloseChannel(r)
    \/ \E r \in Rounds : Tick(r)
    \/ \E r \in Rounds : LoopTimer(r)
    \/ \E r \in Rounds, k \in Units : LoopReceive(r, k)
    \/ \E r \in Rounds : LoopClosed(r)
    \/ \E r \in Rounds : WriteLock(r)
    \/ \E r \in Rounds : WritePublish(r)

FlagSpec ==
    /\ Init /\ [][FlagNext]_vars
    /\ WF_vars(SearchSpawn)
    /\ \A r \in Rounds :
          /\ WF_vars(CloseChannel(r))
          /\ WF_vars(LoopClosed(r))
          /\ WF_vars(WriteLock(r))
          /\ WF_vars(WritePublish(r))
          /\ \A k \in Units : WF_vars(LoopReceive(r, k))

\* ------------------------------------------------- scoring and ranking
\* The receive case and the render pass of one round, followed on their own:
\* the round's query is drawn from Needles, any Source may deliver any line of
\* Candidates in any order, each line is scored by Match and pushed if its
\* score is positive (lines 381-385), and render passes (lines 320-345) are
\* taken in between.  Small heaps are followed, and heaps of about MaxResults
\* results.
Needles == { << "f" >>, << "f", "b" >>, << "-" >> }

\* Six lines of a.go with six different scores under the query f; a second
\* text at a.go:1; lines without an address, one of them matching f, one
\* matching it with a negative score, one not matching.
Candidates ==
    { [text |-> << "f", "a" >>,      addr |-> Addr("a.go", 1)],
      [text |-> << "f", "a", "a" >>, addr |-> Addr("a.go", 2)],
      [text |-> << "-", "f" >>,      addr |-> Addr("a.go", 3)],
      [text |-> << "-", "f", "a" >>, addr |-> Addr("a.go", 4)],
      [text |-> << "a", "F" >>,      addr |-> Addr("a.go", 5)],
      [text |-> << ".", "f" >>,      addr |-> Addr("a.go", 6)],
      [text |-> << "-", "f" >>,      addr |-> Addr("a.go", 1)],
      [text |-> << "f", "a" >>,      addr |-> << >>],
      [text |-> << "a", "f" >>,      addr |-> << >>],
      [text |-> << "b", "a" >>,      addr |-> << >>],
      [text |-> << "-" >>,           addr |-> << >>] }

\* Lines 376-381: the Result the loop holds after scoring.
Scored(c, build, q) ==
    [text |-> c.text, addr |-> c.addr,
     score |-> MatchBy(build, Query(q), c.text), round |-> 1]

\* A round that has already received MaxResults - 1 equal lines.
BulkLine == [text |-> << "f", "a" >>, addr |-> << >>]

BulkHeap(q) == [k \in 1..(MaxResults - 1) |-> Scored(BulkLine, "fuzzy.go", q)]

RankInit ==
    /\ \E n \in Needles :
          /\ query = Prompt \o n \o << "\n" >>
          /\ results \in { [r \in Rounds |-> << >>] }
                         \cup (IF n = << "f" >>
                               THEN { [r \in Rounds |->
                                         IF r = 1 THEN BulkHeap(query) ELSE << >>] }
                               ELSE {})
    /\ lock = "free"
    /\ cur = 1
    /\ cancelled = [r \in Rounds |-> FALSE]
    /\ evq = NoEvent
    /\ evPc = "idle"
    /\ started = [r \in Rounds |-> r = 1]
    /\ srcKind = [r \in Rounds |-> << >>]
    /\ srcPc = [r \in Rounds |-> << >>]
    /\ sent = 0
    /\ wg = [r \in Rounds |-> 0]
    /\ chClosed = [r \in Rounds |-> FALSE]
    /\ rlPc = [r \in Rounds |-> IF r = 1 THEN "select" ELSE "none"]
    /\ hasRendered = [r \in Rounds |-> FALSE]
    /\ lastLen = [r \in Rounds |-> 0]
    /\ timerReady = [r \in Rounds |-> FALSE]
    /\ skipped = [r \in Rounds |-> FALSE]
    /\ topN = [r \in Rounds |-> << >>]
    /\ final = [r \in Rounds |-> FALSE]
    /\ roundQuery = [r \in Rounds |-> IF r = 1 THEN Query(query) ELSE << >>]
    /\ sresults = << >>
    /\ sranges = << >>
    /\ shown = << >>
    /\ pubs = [r \in Rounds |-> FALSE]
    /\ dirty = [r \in Rounds |-> FALSE]
    /\ logs = [r \in Rounds |-> {}]
    /\ wi = 0
    /\ plumb = NoPlumb
    /\ opened = NoLook
    /\ fz = [pc |-> "none"]

rankFrame ==
    << query, lock, cur, cancelled, evq, evPc, started, srcKind, srcPc, sent,
       wg, chClosed, rlPc, hasRendered, lastLen, timerReady, skipped, final,
       roundQuery, sresults, sranges, shown, pubs, dirty, logs, wi, plumb, opened >>

CanReceive(h) ==
    \/ Len(h) < MaxHeap
    \/ Len(h) >= MaxResults - 1 /\ Len(h) < MaxResults - 1 + MaxBulkExtra

\* Lines 367, 381-385: a line is received, scored and pushed if positive.
RankReceive ==
    /\ CanReceive(results[1])
    /\ \E c \in Candidates, build \in Builds :
          LET result == Scored(c, build, query)
          IN  /\ Positive(result.score)
              /\ results' = [results EXCEPT ![1] = HeapPush(@, result)]
    /\ topN' = [topN EXCEPT ![1] = << >>]
    /\ UNCHANGED << rankFrame, fz >>

\* Lines 320-345: a render pass; topN is what it hands to writeResults.
RankRender ==
    /\ results[1] # << >>
    /\ LET p == RenderPass(results[1])
       IN  /\ results' = [results EXCEPT ![1] = p.heap]
           /\ topN' = [topN EXCEPT ![1] = p.topN]
    /\ UNCHANGED << rankFrame, fz >>

RankNext == RankReceive \/ RankRender

RankSpec == RankInit /\ [][RankNext]_vars

\* ============================================================== ClickSpec
\* Click resolution against a publish in progress.  Plumb (lines 540-562)
\* runs in the event loop and takes no lock; writeResults (lines 396-493)
\* rebuilds s.results and s.ranges entry by entry while it holds s.lock.  The
\* session has published one snapshot of round 1 on the timer; more lines
\* have arrived, the channel is closed, and the final render of the round is
\* inside writeResults, past its ctx check.  Here writeResults is followed
\* statement by statement, and the user looks at any offset of the window.
ClickQuery == Prompt \o << "f", "\n" >>

\* Two lines of a.go (one with a two-digit line number), one of b.go and one
\* without an address, all matching f.
ClickLines ==
    << [text |-> << "f", "a" >>,      addr |-> Addr("a.go", 2)],
       [text |-> << ".", "f" >>,      addr |-> Addr("a.go", 10)],
       [text |-> << "f", "a", "a" >>, addr |-> Addr("b.go", 3)],
       [text |-> << "f", "a" >>,      addr |-> << >>] >>

\* The lines numbered in S, in the order the Sources sent them.
RECURSIVE Pick(_, _, _)
Pick(seq, S, k) ==
    IF k > Len(seq) THEN << >>
    ELSE (IF k \in S THEN << seq[k] >> ELSE << >>) \o Pick(seq, S, k + 1)

\* Lines 367-385 and 320-345: the heap after the lines of S were received,
\* and a render pass over it.
ClickPass(S) ==
    RenderPass(PushAll(<< >>, [k \in 1..Len(Pick(ClickLines, S, 1)) |->
                                 Scored(Pick(ClickLines, S, 1)[k], "fuzzy.go",
                                        ClickQuery)]))

ClickInit ==
    /\ query = ClickQuery
    /\ lock = "render"
    /\ cur = 1
    /\ cancelled = [r \in Rounds |-> FALSE]
    /\ evq = NoEvent
    /\ evPc = "idle"
    /\ started = [r \in Rounds |-> r = 1]
    /\ srcKind = [r \in Rounds |-> << >>]
    /\ srcPc = [r \in Rounds |-> << >>]
    /\ sent = 0
    /\ wg = [r \in Rounds |-> 0]
    /\ chClosed = [r \in Rounds |-> r = 1]
    /\ rlPc = [r \in Rounds |-> IF r = 1 THEN "publish" ELSE "none"]
    /\ \E old, new \in SUBSET (1..Len(ClickLines)) :
          /\ old # {} /\ old \subseteq new /\ old # new
          /\ LET before == WriteIndex(ClickQuery, ClickPass(old).topN)
                 now == ClickPass(new)
             IN  /\ sresults = before.results
                 /\ sranges = before.ranges
                 /\ shown = Displayed(ClickPass(old).topN)
                 /\ results = [r \in Rounds |-> IF r = 1 THEN now.heap ELSE << >>]
                 /\ topN = [r \in Rounds |-> IF r = 1 THEN now.topN ELSE << >>]
                 /\ lastLen = [r \in Rounds |->
                                 IF r = 1 THEN Cardinality(old) ELSE 0]
    /\ hasRendered = [r \in Rounds |-> r = 1]
    /\ timerReady = [r \in Rounds |-> FALSE]
    /\ skipped = [r \in Rounds |-> FALSE]
    /\ final = [r \in Rounds |-> r = 1]
    /\ roundQuery = [r \in Rounds |-> IF r = 1 THEN Query(ClickQuery) ELSE << >>]
    /\ pubs = [r \in Rounds |-> r = 1]
    /\ dirty = [r \in Rounds |-> r = 1]
    /\ logs = [r \in Rounds |-> {}]
    /\ wi = 0
    /\ plumb = NoPlumb
    /\ opened = NoLook
    /\ fz = [pc |-> "none"]

clickFrame ==
    << cur, cancelled, evq, started, srcKind, srcPc, sent, wg, chClosed, fz >>

writeFrame ==
    << results, hasRendered, lastLen, timerReady, skipped, topN, final, roundQuery,
       shown, pubs,
       dirty, logs, lock, evPc, plumb, opened >>

\* Line 417: s.results = make([]*Result, len(results)), every entry nil.
WriteMakeResults(r) ==
    /\ rlPc[r] = "publish" /\ evPc # "exited"
    /\ sresults' = [k \in 1..Len(topN[r]) |-> NilResult]
    /\ rlPc' = [rlPc EXCEPT ![r] = "make"]
    /\ UNCHANGED << query, sranges, wi, clickFrame, writeFrame >>

\* Lines 418-453: s.ranges = make([]Range, len(results)), every entry the
\* zero Range; the query line gets its newline back; the groups are built.
WriteMakeRanges(r) ==
    /\ rlPc[r] = "make" /\ evPc # "exited"
    /\ sranges' = [k \in 1..Len(topN[r]) |-> [Start |-> 0, End |-> 0]]
    /\ query' = FixNewline(query)
    /\ wi' = 0
    /\ rlPc' = [rlPc EXCEPT ![r] = IF Len(topN[r]) = 0 THEN "window" ELSE "result"]
    /\ UNCHANGED << sresults, clickFrame, writeFrame >>

\* Line 459: s.results[i] = result.
WriteSetResult(r) ==
    /\ rlPc[r] = "result" /\ evPc # "exited"
    /\ sresults' = [sresults EXCEPT
                      ![wi + 1] = WriteIndex(query, topN[r]).results[wi + 1]]
    /\ rlPc' = [rlPc EXCEPT ![r] = "range"]
    /\ UNCHANGED << query, sranges, wi, clickFrame, writeFrame >>

\* Lines 460-467: the line is formatted, s.ranges[i] is set, i++.
WriteSetRange(r) ==
    /\ rlPc[r] = "range" /\ evPc # "exited"
    /\ sranges' = [sranges EXCEPT
                     ![wi + 1] = WriteIndex(query, topN[r]).ranges[wi + 1]]
    /\ wi' = wi + 1
    /\ rlPc' = [rlPc EXCEPT ![r] = IF wi + 1 = Len(topN[r]) THEN "window"
                                    ELSE "result"]
    /\ UNCHANGED << query, sresults, clickFrame, writeFrame >>

\* Lines 470-493 and the return to the render loop.
WriteWindow(r) ==
    /\ rlPc[r] = "window" /\ evPc # "exited"
    /\ lock' = "free"
    /\ wi' = 0
    /\ \E outcome \in WindowOutcomes \ {"errBefore"} : WriteEnd(r, outcome)
    /\ UNCHANGED << query, sresults, sranges, evPc, plumb, opened, clickFrame >>

lookFrame ==
    << query, lock, rlPc, results, hasRendered, lastLen, timerReady, skipped, topN,
       final, roundQuery, sresults, sranges, shown, pubs, dirty, logs, wi,
       clickFrame >>

\* Offsets the user can look at: the query line, the body, and one past it.
MaxClick == 46

\* Lines 579-590: a look event.  In the query line it is sent back to acme
\* (line 590); beyond it, Plumb is called.
Look ==
    /\ evPc = "idle" /\ plumb.pc = "none"
    /\ \E q0 \in 0..MaxClick :
          IF q0 > Len(query)
          THEN /\ plumb' = [pc |-> "check", q0 |-> q0, i |-> 0, seen |-> << >>]
               /\ UNCHANGED opened
          ELSE /\ opened' = [how |-> "sent back", addr |-> << >>]
               /\ UNCHANGED plumb
    /\ UNCHANGED << evPc, lookFrame >>

\* Plumb returned false: the event goes back to acme (lines 585-587).
SentBack ==
    /\ plumb' = NoPlumb
    /\ opened' = [how |-> "sent back", addr |-> << >>]
    /\ UNCHANGED evPc

\* A run-time panic ends the program.
Panics ==
    /\ plumb' = NoPlumb
    /\ opened' = [how |-> "panic", addr |-> << >>]
    /\ evPc' = "exited"

\* Lines 542-544.
PlumbCheck ==
    /\ plumb.pc = "check"
    /\ IF BeforeFirst(sranges, plumb.q0)
       THEN SentBack
       ELSE /\ plumb' = [plumb EXCEPT !.pc = "search"]
            /\ UNCHANGED << opened, evPc >>
    /\ UNCHANGED lookFrame

\* Lines 546-549: the binary search over s.ranges as they are now.
PlumbSearch ==
    /\ plumb.pc = "search"
    /\ IF FoundAt(sranges, plumb.q0) < 0
       THEN SentBack
       ELSE /\ plumb' = [plumb EXCEPT !.pc = "index",
                                      !.i = FoundAt(sranges, plumb.q0),
                                      !.seen = sranges]
            /\ UNCHANGED << opened, evPc >>
    /\ UNCHANGED lookFrame

\* Lines 551-554: s.results[i].Addr.  An index beyond s.results and a nil
\* entry both panic.
PlumbIndex ==
    /\ plumb.pc = "index"
    /\ IF plumb.i >= Len(sresults) THEN Panics
       ELSE IF sresults[plumb.i + 1] = NilResult THEN Panics
       ELSE IF sresults[plumb.i + 1].addr = << >> THEN SentBack
       ELSE /\ plumb' = [plumb EXCEPT !.pc = "run"]
            /\ opened' = [how |-> "running", addr |-> sresults[plumb.i + 1].addr]
            /\ UNCHANGED evPc
    /\ UNCHANGED lookFrame

\* Lines 556-561: plumb is run with the address and waited for.  Its error
\* is returned by Plumb and by EventLoop (lines 582-584); main logs it and
\* returns (lines 672-677).
PlumbRun ==
    /\ plumb.pc = "run"
    /\ plumb' = NoPlumb
    /\ \E ran \in {"opened", "failed"} :
          /\ opened' = [opened EXCEPT !.how = ran]
          /\ evPc' = IF ran = "failed" THEN "exited" ELSE evPc
    /\ UNCHANGED lookFrame

ClickNext ==
    \/ \E r \in Rounds : WriteMakeResults(r)
    \/ \E r \in Rounds : WriteMakeRanges(r)
    \/ \E r \in Rounds : WriteSetResult(r)
    \/ \E r \in Rounds : WriteSetRange(r)
    \/ \E r \in Rounds : WriteWindow(r)
    \/ Look
    \/ PlumbCheck
    \/ PlumbSearch
    \/ PlumbIndex
    \/ PlumbRun

ClickSpec == ClickInit /\ [][ClickNext]_vars

\* ============================================================== MatchSpec
\* Package fuzzy on its own: Match and MatchPositions of either file are
\* called with every needle of up to MaxNeedle characters and every haystack
\* of up to MaxHaystack characters over a small alphabet.
MaxNeedle == 2
MaxHaystack == 3
\* The texts of up to n characters.
Strings(n) == UNION { [1..k -> { "a", "f", "F", "-" }] : k \in 0..n }

MatchInit ==
    /\ query = Append(Prompt, "\n")
    /\ lock = "free"
    /\ cur = 0
    /\ cancelled = [r \in Rounds |-> FALSE]
    /\ evq = NoEvent
    /\ evPc = "idle"
    /\ started = [r \in Rounds |-> FALSE]
    /\ srcKind = [r \in Rounds |-> << >>]
    /\ srcPc = [r \in Rounds |-> << >>]
    /\ sent = 0
    /\ wg = [r \in Rounds |-> 0]
    /\ chClosed = [r \in Rounds |-> FALSE]
    /\ rlPc = [r \in Rounds |-> "none"]
    /\ results = [r \in Rounds |-> << >>]
    /\ hasRendered = [r \in Rounds |-> FALSE]
    /\ lastLen = [r \in Rounds |-> 0]
    /\ timerReady = [r \in Rounds |-> FALSE]
    /\ skipped = [r \in Rounds |-> FALSE]
    /\ topN = [r \in Rounds |-> << >>]
    /\ final = [r \in Rounds |-> FALSE]
    /\ roundQuery = [r \in Rounds |-> << >>]
    /\ sresults = << >>
    /\ sranges = << >>
    /\ shown = << >>
    /\ pubs = [r \in Rounds |-> FALSE]
    /\ dirty = [r \in Rounds |-> FALSE]
    /\ logs = [r \in Rounds |-> {}]
    /\ wi = 0
    /\ plumb = NoPlumb
    /\ opened = NoLook
    /\ \E build \in Builds, needle \in Strings(MaxNeedle),
          haystack \in Strings(MaxHaystack) :
          fz = [pc |-> "call", build |-> build, needle |-> needle,
                haystack |-> haystack]

\* Match(needle, haystack) is called and returns.
CallMatch ==
    /\ fz.pc = "call"
    /\ fz' = [pc |-> "match", build |-> fz.build, needle |-> fz.needle,
              haystack |-> fz.haystack,
              out |-> [how |-> "ok", positions |-> << >>,
                       score |-> MatchBy(fz.build, fz.needle, fz.haystack)]]
    /\ UNCHANGED << rankFrame, results, topN >>

\* MatchPositions(needle, haystack) is called and returns or panics.
CallMatchPositions ==
    /\ fz.pc = "call"
    /\ fz' = [pc |-> "positions", build |-> fz.build, needle |-> fz.needle,
              haystack |-> fz.haystack,
              out |-> IF fz.build = "fuzzy.go"
                      THEN MatchPositions(fz.needle, fz.haystack)
                      ELSE MatchPositionsEqualLen(fz.needle, fz.haystack)]
    /\ UNCHANGED << rankFrame, results, topN >>

MatchNext == CallMatch \/ CallMatchPositions

MatchSpec == MatchInit /\ [][MatchNext]_vars

\* ================================================================ LoopSpec
\* The render loop of the first round of a session, followed on its own from
\* the return of Search (line 388): the query is x, the flags are the
\* default ones and every Source is in its send with a first line (sent
\* counts the lines after these).  No further edit is made, no Source fails.
LoopInit ==
    /\ query = Prompt \o << "x", "\n" >>
    /\ lock = "free"
    /\ cur = 1
    /\ cancelled = [r \in Rounds |-> FALSE]
    /\ evq = NoEvent
    /\ evPc = "idle"
    /\ started = [r \in Rounds |-> r = 1]
    /\ srcKind = [r \in Rounds |->
                    IF r = 1 THEN [k \in Units |-> KindOfFlag(DefaultFlags[k])]
                    ELSE << >>]
    /\ srcPc = [r \in Rounds |-> IF r = 1 THEN [k \in Units |-> "send"] ELSE << >>]
    /\ sent = 0
    /\ wg = [r \in Rounds |-> IF r = 1 THEN Len(DefaultFlags) ELSE 0]
    /\ chClosed = [r \in Rounds |-> FALSE]
    /\ rlPc = [r \in Rounds |-> IF r = 1 THEN "select" ELSE "none"]
    /\ results = [r \in Rounds |-> << >>]
    /\ hasRendered = [r \in Rounds |-> FALSE]
    /\ lastLen = [r \in Rounds |-> 0]
    /\ timerReady = [r \in Rounds |-> FALSE]
    /\ skipped = [r \in Rounds |-> FALSE]
    /\ topN = [r \in Rounds |-> << >>]
    /\ final = [r \in Rounds |-> FALSE]
    /\ roundQuery = [r \in Rounds |-> IF r = 1 THEN Query(query) ELSE << >>]
    /\ sresults = << >>
    /\ sranges = << >>
    /\ shown = << >>
    /\ pubs = [r \in Rounds |-> FALSE]
    /\ dirty = [r \in Rounds |-> FALSE]
    /\ logs = [r \in Rounds |-> {}]
    /\ wi = 0
    /\ plumb = NoPlumb
    /\ opened = NoLook
    /\ fz = [pc |-> "none"]

LoopNext ==
    \/ CloseChannel(1)
    \/ Tick(1)
    \/ LoopTimer(1)
    \/ \E k \in Units : LoopReceive(1, k)
    \/ LoopClosed(1)
    \/ WriteLock(1)
    \/ WritePublish(1)

LoopSpec == LoopInit /\ [][LoopNext]_vars

\* ================================================================ claims
SameMultiset(a, b) ==
    /\ Len(a) = Len(b)
    /\ \A i \in 1..Len(a) :
          Cardinality({ j \in 1..Len(a) : a[j] = a[i] })
          = Cardinality({ j \in 1..Len(b) : b[j] = a[i] })

AllUnitsDone(r) == \A k \in DOMAIN srcPc[r] : srcPc[r][k] = "done"

LoopOver(r) == rlPc[r] \in {"none", "done", "failed"}

\* Every unit of the round has returned: the Sources, the closing unit (it
\* returns when it has closed the channel) and the render loop.
RoundTerminated(r) == AllUnitsDone(r) /\ (started[r] => chClosed[r]) /\ LoopOver(r)

Completed(r) == AllUnitsDone(r) /\ chClosed[r] /\ rlPc[r] = "done"

\* C1 (as claimed): a render pass leaves the multiset of results held by the
\* round's heap unchanged: results popped but excluded by the duplicate rule
\* or the per-file cap are pushed back.
C1_SnapshotNonDestructive ==
    [][\A r \in Rounds :
          (rlPc[r] = "select" /\ rlPc'[r] = "write")
              => SameMultiset(results[r], results'[r])]_vars

\* C2: a round that is inside writeResults past the ctx check, the only place
\* from which the window is written or s.results assigned, has a token that
\* is not cancelled; so nothing of a round is published or installed once
\* its token is cancelled.
C2_NoPublishAfterCancel ==
    \A r \in Rounds : rlPc[r] = "publish" => ~cancelled[r]

\* C2 witness: a cancelled round whose render loop has taken the timer or
\* channel case and is calling writeResults.
C2_Witness ==
    \E r \in Rounds : cancelled[r] /\ rlPc[r] = "write" /\ topN[r] # << >>

\* C3: at most one minted token is un-cancelled, and once anything of a round
\* exists (channel, Sources, render loop) every earlier token is cancelled.
C3_CancelAndReplace ==
    /\ Cardinality({ r \in Rounds : r <= cur /\ ~cancelled[r] }) <= 1
    /\ \A r \in Rounds :
          (started[r] \/ rlPc[r] # "none" \/ srcPc[r] # << >>)
              => \A p \in 1..(r - 1) : cancelled[p]

\* C3 witness: round 2 is running while the loop and a Source of round 1 are
\* still alive.
C3_Witness ==
    /\ cur = 2 /\ started[2] /\ started[1]
    /\ rlPc[1] = "select"
    /\ \E k \in DOMAIN srcPc[1] : srcPc[1][k] = "send"

\* C4: every result in a round's heap, and in the snapshot it is about to
\* publish, was produced by a Source of that same round.
C4_NoCrossRoundResults ==
    \A r \in Rounds :
        /\ \A i \in 1..Len(results[r]) : results[r][i].round = r
        /\ \A i \in 1..Len(topN[r]) : topN[r][i].round = r

\* C4 witness: the new round has a result in its heap while a Source of the
\* superseded round still has a line to send.
C4_Witness ==
    /\ cur = 2 /\ Len(results[2]) > 0
    /\ \E k \in DOMAIN srcPc[1] : srcPc[1][k] = "send"

\* C5 (as claimed): when an edit of the query arrived during the initial
\* delay of a round, that round has spawned no Source.
C5_StaleRoundSpawnsNothing ==
    ~ ( /\ evq # NoEvent
        /\ evq.q0 <= Len(query)
        /\ cur > 0
        /\ started[cur]
        /\ KnownUnits(srcKind[cur]) # {} )

\* C6: when the merge channel of a round is closed, every Source unit of the
\* round has returned.
C6_CloseAfterAllSources ==
    \A r \in Rounds : chClosed[r] => AllUnitsDone(r)

\* C6 witness: a round whose Sources delivered two lines is closed.
C6_Witness ==
    \E r \in Rounds : chClosed[r] /\ Len(results[r]) = 2

\* C7: once a round's token is cancelled, all its units eventually return.
C7_CancelTerminates ==
    \A r \in Rounds : cancelled[r] ~> RoundTerminated(r)

\* C7 witness: a cancelled round with a Source blocked in its send while the
\* render loop has already returned.
C7_Witness ==
    \E r \in Rounds : \E k \in DOMAIN srcPc[r] :
        cancelled[r] /\ srcPc[r][k] = "send" /\ LoopOver(r) /\ started[r]

\* C8: a started round is eventually superseded, or fails to publish, or
\* completes: channel closed, render loop returned after the last render
\* attempt, no unit left.
C8_RoundCompletes ==
    \A r \in Rounds :
        started[r] ~> (cancelled[r] \/ rlPc[r] = "failed" \/ Completed(r))

\* C8 witness: a round that was never superseded has completed and its
\* results are shown.
C8_Witness ==
    \E r \in Rounds : Completed(r) /\ ~cancelled[r] /\ pubs[r] /\ shown # << >>

\* C9: a render attempt (timer case or closed-channel case) of a round that
\* has published and has pushed no result since does not go on to
\* writeResults; a render attempt of a round that has not published yet
\* does, whatever the heap holds.
C9_IdempotentRender ==
    [][\A r \in Rounds :
          (LoopTimer(r) \/ LoopClosed(r)) =>
              /\ (pubs[r] /\ ~dirty[r]) => rlPc'[r] # "write"
              /\ ~pubs[r] => rlPc'[r] = "write"]_vars

\* C9 witness: the timer is ready in a round that has published an empty
\* snapshot and received nothing since.
C9_Witness ==
    \E r \in Rounds :
        /\ rlPc[r] = "select" /\ timerReady[r]
        /\ pubs[r] /\ ~dirty[r] /\ results[r] = << >>

\* C10 (as claimed): when the loop finds the channel closed it goes on to
\* writeResults with a last snapshot, whatever the idempotence rule says.
C10_FinalAlwaysPublishes ==
    [][\A r \in Rounds : LoopClosed(r) => rlPc'[r] = "write"]_vars

\* C10 (amended): the last render attempt follows the idempotence rule.  It
\* is skipped, and the loop returns at once, exactly when the round has
\* published and pushed nothing since; otherwise it goes to writeResults;
\* and after it the loop never selects again.
C10_FinalRenderIdempotent ==
    [][\A r \in Rounds :
          /\ LoopClosed(r) =>
                IF pubs[r] /\ ~dirty[r]
                THEN rlPc'[r] = "done"
                ELSE rlPc'[r] = "write" /\ final'[r]
          /\ (final[r] /\ rlPc[r] \in {"write", "publish"})
                => rlPc'[r] \in {"write", "publish", "done", "failed"}]_vars

\* C10 witness: a round that was not cancelled has returned on the closed
\* channel after having published.
C10_Witness ==
    \E r \in Rounds :
        rlPc[r] = "done" /\ chClosed[r] /\ ~cancelled[r] /\ pubs[r] /\ results[r] = << >>

\* C11: the step that receives, scores and pushes a line leaves the loop in
\* its select and the window and s.results as they are; and the loop goes on
\* to writeResults only when the timer has fired or the channel is closed.
C11_ReceiveNeverPublishes ==
    [][\A r \in Rounds :
          /\ \A k \in Units :
                LoopReceive(r, k) =>
                    /\ rlPc'[ChanOf(r)] = "select"
                    /\ UNCHANGED << sresults, shown, pubs >>
          /\ (rlPc[r] = "select" /\ rlPc'[r] = "write")
                => (timerReady[r] \/ chClosed[r])]_vars

\* C11 witness: a round has pushed a result and is still in its select,
\* timer not fired, channel open: nothing was published for that result.
C11_Witness ==
    \E r \in Rounds :
        /\ rlPc[r] = "select" /\ dirty[r] /\ results[r] # << >>
        /\ ~timerReady[r] /\ ~chClosed[r] /\ ~pubs[r]

\* C12: every result in a heap and every result of a snapshot has a score
\* above zero.
C12_OnlyPositiveScores ==
    \A r \in Rounds :
        /\ \A i \in 1..Len(results[r]) : results[r][i].score > 0
        /\ \A i \in 1..Len(topN[r]) : topN[r][i].score > 0

\* C12 witness: a snapshot was taken in a round whose Sources can deliver a
\* line scored -Inf, a line with a negative score and a line scored zero.
C12_Witness ==
    /\ topN[1] # << >>
    /\ \E c \in Candidates : Match(Query(query), c.text) = MinScore
    /\ \E c \in Candidates :
          Match(Query(query), c.text) < 0 /\ Match(Query(query), c.text) # MinScore
    /\ \E q \in Needles, c \in Candidates : Match(q, c.text) = 0

RECURSIVE IsSubsequence(_, _)
IsSubsequence(n, h) ==
    IF n = << >> THEN TRUE
    ELSE IF h = << >> THEN FALSE
    ELSE IF Head(n) = Head(h) THEN IsSubsequence(Tail(n), Tail(h))
    ELSE IsSubsequence(n, Tail(h))

\* C13 (as claimed): every result of a snapshot contains the query as a
\* case-insensitive subsequence.
C13_NoMatchNeverShown ==
    \A i \in 1..Len(topN[1]) :
        IsSubsequence(ToLower(Query(query)), ToLower(topN[1][i].text))

\* C14: a snapshot has at most MaxResults results, in non-increasing score
\* order, and what the pass left in the heap without listing it scores no
\* higher than the last result listed.
C14_TopByScore ==
    LET t == topN[1]
        h == results[1]
    IN  /\ Len(t) <= MaxResults
        /\ \A i \in 1..(Len(t) - 1) : t[i].score >= t[i + 1].score
        /\ t # << >> =>
              \A k \in 1..Len(h) :
                  \/ \E i \in 1..Len(t) : t[i] = h[k]
                  \/ h[k].score <= t[Len(t)].score

\* C14 witness: a snapshot of MaxResults results, taken from a larger heap
\* that also held results with an address.
C14_Witness ==
    /\ Len(topN[1]) = MaxResults
    /\ Len(results[1]) > MaxResults
    /\ \E i \in 1..Len(topN[1]) : topN[1][i].addr # << >>

SameLine(a, b) == a.text = b.text /\ a.addr = b.addr

CountLine(x, seq) == Cardinality({ i \in 1..Len(seq) : SameLine(seq[i], x) })

\* C15: of the results in the heap that have an address, a render pass
\* lists no two with the same text and the same address.
C15_ExactDuplicateOnce ==
    [][RankRender =>
          \A k \in 1..Len(results[1]) :
              results[1][k].addr # << >> => CountLine(results[1][k], topN'[1]) <= 1]_vars

\* C15 witness: the heap holds the same line of a.go twice.
C15_Witness ==
    \E i, j \in 1..Len(results[1]) :
        i < j /\ results[1][i].addr # << >> /\ SameLine(results[1][i], results[1][j])

\* C16 (as claimed): of the results in the heap that have no address, a
\* render pass lists no two with the same text.
C16_NoAddrDuplicateOnce ==
    [][RankRender =>
          \A k \in 1..Len(results[1]) :
              results[1][k].addr = << >> => CountLine(results[1][k], topN'[1]) <= 1]_vars

\* C17 (as claimed): a render pass of a heap of at most PerFileCap results,
\* no two of them with the same text and address, lists them all.
C17_OnlyExactDuplicates ==
    [][RankRender =>
          LET h == results[1]
          IN  (/\ Len(h) <= PerFileCap
               /\ \A i, j \in 1..Len(h) : i # j => ~SameLine(h[i], h[j]))
                  => \A k \in 1..Len(h) : CountLine(h[k], topN'[1]) = 1]_vars

AddrsIn(h, f) ==
    { h[k].addr[1] : k \in { n \in 1..Len(h) : h[n].addr # << >> /\ h[n].addr[1].file = f } }

FilesIn(h) == { h[k].addr[1].file : k \in { n \in 1..Len(h) : h[n].addr # << >> } }

\* C18 (as claimed): when results with the same address have the same text,
\* no file has more than PerFileCap addresses in the heap and the heap holds
\* fewer than MaxResults results, a render pass lists every line of the heap.
C18_DuplicateTakesNoSlot ==
    [][RankRender =>
          LET h == results[1]
          IN  (/\ Len(h) < MaxResults
               /\ \A i, j \in 1..Len(h) : h[i].addr = h[j].addr => h[i].text = h[j].text
               /\ \A f \in FilesIn(h) : Cardinality(AddrsIn(h, f)) <= PerFileCap)
                  => \A k \in 1..Len(h) : CountLine(h[k], topN'[1]) >= 1]_vars

InFile(seq, f) == { i \in 1..Len(seq) : seq[i].addr # << >> /\ seq[i].addr[1].file = f }

\* C19: a render pass lists at most PerFileCap results of a file; and when
\* the results of the heap have pairwise different addresses (and are no
\* more than MaxResults), it lists of each file PerFileCap results, or all if
\* there are fewer, and none it leaves out scores higher than one it lists.
C19_PerFileCap ==
    [][RankRender =>
          LET h == results[1]
              t == topN'[1]
          IN  /\ \A f \in FilesIn(h) : Cardinality(InFile(t, f)) <= PerFileCap
              /\ (/\ Len(h) <= MaxResults
                  /\ \A i, j \in 1..Len(h) :
                        (i # j /\ h[i].addr # << >>) => h[i].addr # h[j].addr)
                    => \A f \in FilesIn(h) :
                          /\ Cardinality(InFile(t, f))
                                = IF Cardinality(InFile(h, f)) < PerFileCap
                                  THEN Cardinality(InFile(h, f)) ELSE PerFileCap
                          /\ \A k \in InFile(h, f) : \A i \in InFile(t, f) :
                                CountLine(h[k], t) = 0 => h[k].score <= t[i].score]_vars

\* C19 witness: the heap holds more than PerFileCap results of a.go, with
\* pairwise different addresses and pairwise different scores.
C19_Witness ==
    LET h == results[1]
    IN  /\ Cardinality(InFile(h, "a.go")) > PerFileCap
        /\ \A i, j \in 1..Len(h) :
              i # j => (h[i].addr # h[j].addr /\ h[i].score # h[j].score)

\* What a round displays at the end when its lines arrive in the order seq.
Published(seq) == Displayed(RenderPass(PushAll(<< >>, seq)).topN)

\* C20 (as claimed): the results now in the heap, when there are at most
\* MaxOrder of them, give the same display in whatever order they arrive.
C20_ArrivalOrderIrrelevant ==
    LET h == results[1]
    IN  Len(h) <= MaxOrder =>
            \A p \in Permutations(1..Len(h)) :
                Published([k \in 1..Len(h) |-> h[p[k]]]) = Published(h)

\* Every index a completed writeResults can leave for the lines of ClickSpec.
BuiltIndexes == { WriteIndex(ClickQuery, ClickPass(S).topN) : S \in SUBSET (1..Len(ClickLines)) }

\* writeResults of round r is between its first and its last assignment to
\* s.results and s.ranges.
Building(r) == rlPc[r] \in {"make", "result", "range"}

\* C21: when Plumb indexes s.results, the ranges it searched and the results
\* it reads are those of one fully built snapshot: same length, no nil entry,
\* the ranges built for those results.
C21_ClickSeesOneSnapshot ==
    plumb.pc = "index" =>
        \E ix \in BuiltIndexes :
            plumb.seen = ix.ranges /\ sresults = ix.results

\* C22 (as claimed): while the event loop waits in the first select of
\* Search (the initial delay), s.lock is not held.
C22_NoLockAcrossDelay == evPc = "delay" => lock = "free"

\* C23: once a Source of a round has failed (its error was reported), the
\* round still completes, unless a render fails: every other Source delivers
\* its lines and returns, the channel is closed, and the loop returns after
\* its last render attempt.
C23_SourceFailureIsLocal ==
    \A r \in Rounds :
        ("source" \in logs[r]) ~> (rlPc[r] = "failed" \/ Completed(r))

\* C23 witness: a round in which a Source failed has completed, and a line of
\* another of its Sources is in the address index.
C23_Witness ==
    \E r \in Rounds :
        /\ "source" \in logs[r] /\ Completed(r) /\ pubs[r]
        /\ \E i \in 1..Len(sresults) : sresults[i].round = r

\* C24 (as claimed): when a Source that has sent a line finds its process
\* exited with a nonzero status, in a round that is not cancelled, an error
\* report of a Source is in the round's log.
C24_SourceFailureReported ==
    [][\A r \in Rounds : \A k \in Units :
          (ReceiveThen(r, k, "exit") /\ ~cancelled[r]) => "source" \in logs'[r]]_vars

\* C25 (as claimed): no round logs a render error whose cause is its
\* cancelled token.
C25_CancelNeverLogged == \A r \in Rounds : "render: canceled" \notin logs[r]

\* C26 (as claimed): when writeResults returns an error and the window still
\* shows what it showed, s.results and s.ranges are what they were.
C26_FailedPublishKeepsIndex ==
    [][\A r \in Rounds :
          (rlPc[r] = "publish" /\ rlPc'[r] = "failed" /\ shown' = shown)
              => UNCHANGED << sresults, sranges >>]_vars

\* C27: after the plumb command failed for a resolved result, the event loop
\* is still running.
C27_OpenerFailureNotFatal == opened.how = "failed" => evPc = "idle"

\* The ranges that contain q0.
Containing(ranges, q0) ==
    { i \in 1..Len(ranges) : ranges[i].Start <= q0 /\ q0 < ranges[i].End }

\* The claimed Resolve: the result of the half-open range containing q0, if it
\* has an address.
Claimed(ranges, rs, q0) ==
    IF \E i \in Containing(ranges, q0) : rs[i].addr # << >>
    THEN rs[CHOOSE i \in Containing(ranges, q0) : TRUE]
    ELSE NilResult

ExampleRanges == << [Start |-> 0, End |-> 5], [Start |-> 5, End |-> 12] >>
ExampleResults ==
    << Scored(ClickLines[1], "fuzzy.go", ClickQuery),
       Scored(ClickLines[3], "fuzzy.go", ClickQuery) >>

\* C28: on an index nobody is writing, Plumb resolves every offset, from one
\* before the window to one past it, to the result of the half-open range
\* that contains it, and to nothing when no range contains it or the result
\* has no address; the ranges (0,5),(5,12) resolve 4 to the first result, 5 to
\* the second, 12 and -1 to nothing.
C28_ResolveByRange ==
    /\ (\A r \in Rounds : ~Building(r)) =>
           \A q0 \in (0 - 1)..(MaxClick + 1) :
               Resolve(sranges, sresults, q0) = Claimed(sranges, sresults, q0)
    /\ Resolve(ExampleRanges, ExampleResults, 4) = ExampleResults[1]
    /\ Resolve(ExampleRanges, ExampleResults, 5) = ExampleResults[2]
    /\ Resolve(ExampleRanges, ExampleResults, 12) = NilResult
    /\ Resolve(ExampleRanges, ExampleResults, 0 - 1) = NilResult

\* A look was resolved to an addressed result on a finished index of three
\* ranges or more that has a header gap and a result without an address.
C28_Witness ==
    /\ plumb.pc = "run"
    /\ \A r \in Rounds : ~Building(r)
    /\ plumb.seen = sranges
    /\ Len(sranges) >= 3
    /\ sresults[plumb.i + 1] = Resolve(sranges, sresults, plumb.q0)
    /\ \E k \in 1..(Len(sranges) - 1) : sranges[k].End < sranges[k + 1].Start
    /\ \E j \in 1..Len(sresults) : sresults[j].addr = << >>

\* The text of a range in the body written to the window.
TextIn(body, range) == SubSeq(body, range.Start + 1, range.End)

\* C29: a writeResults that returns nil leaves ranges and results as long as
\* the snapshot, the i-th range covering exactly the rendered line of the
\* i-th result (with or without its newline), every snapshot result once, the
\* ranges ascending and non-overlapping.
C29_IndexWellFormed ==
    [][\A r \in Rounds :
          (rlPc[r] = "window" /\ rlPc'[r] = "done") =>
              LET body == WriteIndex(query, topN[r]).sb
                  n == Len(topN[r])
              IN  /\ Len(sranges') = n /\ Len(sresults') = n
                  /\ \A i \in 1..n :
                        \/ TextIn(body, sranges'[i]) = LineOf(sresults'[i])
                        \/ TextIn(body, sranges'[i]) \o << "\n" >>
                               = LineOf(sresults'[i])
                  /\ SameMultiset(sresults', topN[r])
                  /\ \A i \in 1..(n - 1) :
                        /\ sranges'[i].Start < sranges'[i + 1].Start
                        /\ sranges'[i].End <= sranges'[i + 1].Start]_vars

\* C30 (as claimed): an insert or delete event whose q0 is at or beyond
\* len(s.query) changes neither the query nor the tokens, starts no round and
\* does not enter Search.
C30_EditOutsideQueryIgnored ==
    [][\A e \in EditInputs \cup EdgeInputs :
          (/\ e.q0 >= Len(query)
           /\ \/ e \in ArrivalsOf(EditInputs \cup EdgeInputs, "I") /\ InsertEvent(e)
              \/ e \in ArrivalsOf(EditInputs \cup EdgeInputs, "D") /\ DeleteEvent(e))
              => UNCHANGED << query, cur, cancelled, evPc, lock >>]_vars

\* C31: when Search creates the units of a round, there is one per letter
\* after the first + of the trimmed query text, or one each for symbols,
\* windows and grep when there is no +; a recognized letter gets its Source
\* (w the window index, s, g, f a command), an unrecognized one is logged,
\* gets no Source and does not hold the wait group; and the round goes on
\* to its final render (or a render failure).
C31_SourcesFromFlags ==
    /\ [][\A r \in Rounds :
             (~started[r] /\ started'[r]) =>
                 LET text == TrimSpace(TrimPrefix(query, Prompt))
                     plus == { i \in 1..Len(text) : text[i] = "+" }
                     named == IF plus = {} THEN << "s", "w", "g" >>
                              ELSE SubSeq(text,
                                          (CHOOSE i \in plus :
                                              \A j \in plus : i <= j) + 1,
                                          Len(text))
                     odd == { k \in 1..Len(named) :
                                named[k] \notin {"s", "w", "g", "f"} }
                 IN  /\ Len(srcKind'[r]) = Len(named)
                     /\ \A k \in 1..Len(named) :
                           /\ named[k] \in {"s", "g", "f"} <=> srcKind'[r][k] = "cmd"
                           /\ named[k] = "w" <=> srcKind'[r][k] = "idx"
                           /\ k \in odd => srcPc'[r][k] = "done"
                     /\ odd # {} <=> "unknown flag" \in logs'[r]
                     /\ wg'[r] = Cardinality({ k \in 1..Len(named) :
                                                 srcPc'[r][k] = "send" })]_vars
    /\ \A r \in Rounds : started[r] ~> (rlPc[r] = "failed" \/ Completed(r))

\* C31 witness: a round whose query names an unrecognized letter and the
\* windows Source has completed, and a window name of that round is shown.
C31_Witness ==
    \E r \in Rounds :
        /\ "unknown flag" \in logs[r] /\ Completed(r) /\ pubs[r]
        /\ \E i \in 1..Len(sresults) : sresults[i].round = r

\* C32: Match returns the no-match sentinel whenever the needle is empty or
\* longer than the haystack, in either file of the package.
C32_NoMatchSentinel ==
    (/\ fz.pc = "match"
     /\ fz.needle = << >> \/ Len(fz.needle) > Len(fz.haystack))
        => fz.out.score = MinScore

\* C32 witness: Match has returned for an empty needle and a haystack that is
\* not empty.
C32_Witness ==
    /\ fz.pc = "match" /\ fz.needle = << >> /\ fz.haystack # << >>
    /\ fz.out.score = MinScore

\* C33 (as claimed): for a needle that is not empty and equals the haystack
\* ignoring case, Match returns the maximal-match sentinel, which is greater
\* than its score against every longer haystack.
C33_EqualIsMaximal ==
    (/\ fz.pc = "match" /\ fz.needle # << >>
     /\ ToLower(fz.needle) = ToLower(fz.haystack))
        => /\ fz.out.score = MaxScore
           /\ \A longer \in Strings(MaxHaystack) :
                 Len(longer) > Len(fz.needle)
                     => MatchBy(fz.build, fz.needle, longer) < fz.out.score

\* The call is about a needle that is not empty and is, ignoring case, a
\* subsequence of a longer haystack.
ProperMatch ==
    /\ fz.needle # << >>
    /\ Len(fz.haystack) > Len(fz.needle)
    /\ IsSubsequence(ToLower(fz.needle), ToLower(fz.haystack))

\* C34 (as claimed): the score of a needle that is a subsequence of a longer
\* haystack is never negative.
C34_MatchNeverNegative ==
    (fz.pc = "match" /\ ProperMatch) => fz.out.score >= 0

\* C35 (as claimed): for a needle that is a subsequence of a longer haystack,
\* MatchPositions returns, with the score of Match and one haystack index
\* per needle character: increasing, within the haystack, and on a character
\* equal to the needle's ignoring case.
C35_PositionsOfMatch ==
    (fz.pc = "positions" /\ ProperMatch) =>
        /\ fz.out.how = "ok"
        /\ fz.out.score = MatchBy(fz.build, fz.needle, fz.haystack)
        /\ Len(fz.out.positions) = Len(fz.needle)
        /\ \A i \in 1..Len(fz.needle) :
              /\ fz.out.positions[i] \in 0..(Len(fz.haystack) - 1)
              /\ ToLowerRune(fz.haystack[fz.out.positions[i] + 1])
                     = ToLowerRune(fz.needle[i])
              /\ i > 1 => fz.out.positions[i - 1] < fz.out.positions[i]

\* C36 (as claimed): for the heap of a round, whatever the receives and render
\* passes that led to it, and any further line received, the next snapshot
\* holds the same results whether or not one more render pass is taken
\* before the line is received.
C36_SnapshotIgnoresEarlierPasses ==
    Len(results[1]) < MaxHeap =>
        \A c \in Candidates :
            LET x == Scored(c, "fuzzy.go", query)
            IN  Positive(x.score) =>
                    SameMultiset(
                        RenderPass(HeapPush(results[1], x)).topN,
                        RenderPass(HeapPush(RenderPass(results[1]).heap, x)).topN)

\* C37 (as claimed): once the render loop of a round that is not cancelled
\* has returned because a publish failed, every Source of the round
\* eventually returns and the channel is eventually closed, no later edit
\* being needed.
C37_FailedLoopFreesSources ==
    \A r \in Rounds :
        (rlPc[r] = "failed" /\ ~cancelled[r]) ~> (AllUnitsDone(r) /\ chClosed[r])

\* C38 (as claimed): after a render attempt of the timer case that was
\* skipped, the timer case of the round's loop is not ready again before a
\* further debounce period has elapsed.
C38_SkippedAttemptRearms ==
    \A r \in Rounds : skipped[r] => ~(rlPc[r] = "select" /\ TimerFired(r))

\* C39: whenever a round publishes, every result it lists was received and
\* scored by that round's loop, and the query text the loop scores against
\* is the query text (prompt and flags stripped) of the query line left by
\* that publish, however the edits and the loops of the current and of
\* superseded rounds interleave.
C39_PublishSelfConsistent ==
    [][\A r \in Rounds :
          WritePublish(r) =>
              /\ \A i \in 1..Len(topN[r]) : topN[r][i].round = r
              /\ roundQuery[r] = Query(query')]_vars

\* C39 witness: the second round has published its results under its own
\* query text while the loop of the round it superseded, started under
\* another query text, has not returned yet.
C39_Witness ==
    /\ pubs[2] /\ shown # << >> /\ rlPc[2] = "select"
    /\ \A i \in 1..Len(shown) : shown[i].round = 2
    /\ roundQuery[2] = Query(query)
    /\ cancelled[1] /\ rlPc[1] \in {"select", "write"}
    /\ roundQuery[1] # roundQuery[2]

\* C40: a render attempt (timer case or closed-channel case) that does not go
\* on to writeResults is made only when no result was pushed onto the heap
\* since the round's last publish, also when the pass of that publish had
\* made the heap smaller before lastLen was recorded.
C40_SkipHidesNothing ==
    [][\A r \in Rounds :
          ((LoopTimer(r) \/ LoopClosed(r)) /\ rlPc'[r] # "write") => ~dirty[r]]_vars

\* C40 witness: a render attempt has gone on to writeResults for a result
\* pushed since the round's last publish; its pass has dropped a duplicate,
\* which leaves the heap exactly as long as the lastLen recorded before.
C40_Witness ==
    /\ rlPc[1] = "write" /\ pubs[1] /\ dirty[1]
    /\ hasRendered[1] /\ lastLen[1] > 0
    /\ Len(results[1]) = lastLen[1]
====
